---------------------------- MODULE Spec2Model ----------------------------
(***************************************************************************)
(* A model of the lapin AMQP 0-9-1 client.                                 *)
(*                                                                         *)
(*   - the request/reply engine of lapin-async (async/src/api.rs,          *)
(*     async/src/channel.rs): variables channels .. inorder, under Spec;   *)
(*   - publisher confirms and channel closing of the lapin Channel         *)
(*     (src/channel.rs), under SpecConfirm;                                *)
(*   - outbound framing of body-bearing methods (src/channel.rs), under    *)
(*     SpecSend;                                                           *)
(*   - the delivery stream of a consumer (futures/src/consumer.rs), under  *)
(*     SpecConsumer.                                                       *)
(*                                                                         *)
(* Each specification moves the variables of its own part and leaves the   *)
(* others at their initial value.                                          *)
(***************************************************************************)
EXTENDS Integers, Sequences, FiniteSets, TLC

(***************************************************************************)
(* Bounds of the model.                                                    *)
(***************************************************************************)
\* requests that allocate a request id, over the whole connection
MaxReq == 3
\* frames the connection queues for the writer
MaxFrames == 3
\* largest body_size announced by a content header
MaxBody == 2
\* publishes made on the channel in confirm mode (delivery tags 1..MaxTag)
MaxTag == 3
\* frame_max values the broker proposes in Connection.Tune
MinFrameMax == 7
MaxFrameMax == 10
\* longest payload of a publish, in bytes
MaxLen == 3
\* calls that queue frames, over all the tasks
MaxSends == 3
\* deliveries the broker completes for the consumer
MaxDeliveries == 3
\* work items waiting in internal_rpc, Connection methods sent, frames queued
MaxRpc == 3
MaxWire == 4
MaxPending == 2
\* deliveries the broker starts, bytes a content header announces
MaxContents == 3
MaxSize == 2

\* channel ids present in Connection.channels (created by create_channel)
ChannelIds == {1}
\* a channel id that is not in Connection.channels
UnknownChannelIds == {2}
AnyChannelId == ChannelIds \cup UnknownChannelIds

QueueNames == {"q1", "q2"}
Exchanges == {"ex"}
RoutingKeys == {"rk"}
ConsumerTags == {"ct"}
\* (no_local, no_ack, exclusive, nowait) of basic_consume
ConsumeFlags == {<<FALSE, FALSE, FALSE, FALSE>>}
\* (prefetch_size, prefetch_count) of basic_qos
QosValues == {<<0, 1>>}

\* Option<String>::None
NoStr == "<none>"

VARIABLES
  \* ---- lapin-async Connection (async/src/api.rs) ----
  channels,           \* Connection.channels: id -> Channel
  frame_queue,        \* Connection.frame_queue: outbound method frames
  request_index,      \* next request id
  finished_reqs,      \* Connection.finished_reqs
  finished_get_reqs,  \* Connection.finished_get_reqs: id -> got a message
  prefetch_size,      \* Connection.prefetch_size (global qos)
  prefetch_count,     \* Connection.prefetch_count (global qos)
  ret,                \* what the last call returned
  \* history of the exchange with the broker, per channel
  owed,               \* expected replies recorded at send time and not yet
                      \* answered by the broker, in request order
  replied,            \* ids of the requests the broker has answered
  inorder             \* every reply so far answered the oldest owed request

apiVars == <<channels, frame_queue, request_index, finished_reqs,
             finished_get_reqs, prefetch_size, prefetch_count, ret,
             owed, replied, inorder>>

VARIABLES
  \* ---- lapin Channel (src/channel.rs) ----
  status,             \* Channel.status: state and confirm flag
  delivery_tag,       \* Channel.delivery_tag: the last tag the sequence gave
  acknowledgements,   \* Channel.acknowledgements: pending delivery tags
  confirms,           \* tag -> resolutions of its PublisherConfirm promise
  expected_close_ok,  \* Channel.frames expects a Channel.CloseOk
  internal_rpc,       \* futures registered with internal_rpc, not yet run
  removed,            \* errors given to internal_rpc.remove_channel
  result              \* what the last Channel call returned

chanVars == <<status, delivery_tag, acknowledgements, confirms,
              expected_close_ok, internal_rpc, removed, result>>

VARIABLES
  \* ---- outbound framing (src/channel.rs) ----
  channel_max,        \* Channel.configuration.channel_max (u16)
  frame_max,          \* Channel.configuration.frame_max (u32)
  heartbeat,          \* Channel.configuration.heartbeat (u16)
  frames,             \* Channel.frames: the outbound frame queue
  tasks,              \* each caller: where it is in its send, its locals
  sends               \* calls made so far

sendVars == <<channel_max, frame_max, heartbeat, frames, tasks, sends>>

VARIABLES
  \* ---- lapin-futures Consumer (futures/src/consumer.rs) ----
  deliveries,         \* ConsumerInner.deliveries
  canceled,           \* ConsumerInner.canceled
  task,               \* Consumer.task is set
  delivered,          \* deliveries the broker has completed so far
  yielded,            \* the items poll has returned, in order
  ended,              \* poll has returned the end of the stream
  due,                \* deliveries completed and not yet polled at the cancel
  polled              \* what the last poll returned

consVars == <<deliveries, canceled, task, delivered, yielded, ended, due, polled>>

VARIABLES
  \* ---- the connection, as channel 0 drives it (src/channel.rs) ----
  connection_status,  \* ConnectionStatus: state and connection_step
  connection_promise, \* resolutions of the connection-open promise
  rpc_queue,          \* work items handed to internal_rpc, oldest first
  wire,               \* Connection methods the client has sent
  pending,            \* Frames: outcome of the resolver of each queued frame
  conn_result,        \* what the last handler returned
  steps               \* the handshake steps set so far

connVars == <<connection_status, connection_promise, rpc_queue, wire,
              pending, conn_result, steps>>

VARIABLES
  \* ---- content assembly of a channel (src/channel.rs) ----
  channel_status,     \* ChannelStatus: state with its content cursor, confirm
  current_message,    \* the partial delivery of the consumer, of the
                      \* Basic.Get and of the returned messages
  consumer_ready,     \* completed deliveries the consumer holds, oldest first
  get_promise,        \* resolutions of the Basic.Get promises
  returned_messages,  \* completed returned messages
  content_result,     \* what the last content handler returned
  started             \* deliveries started so far

contVars == <<channel_status, current_message, consumer_ready, get_promise,
              returned_messages, content_result, started>>

VARIABLES
  \* ---- a second Channel of the same connection (src/channel.rs) ----
  peer                \* its confirm flag, delivery_tag and acknowledgements

peerVars == <<peer>>

VARIABLES
  \* ---- the calls of a user task on the channel (src/channel.rs) ----
  publish_call,       \* a basic_publish call: where it is, what it holds
  waiter              \* a wait_for_confirms call: where it is, what it got

callVars == <<publish_call, waiter>>

VARIABLES
  \* ---- the extent of the exploration ----
  request_cap         \* the number of requests the connection is let make

capVars == <<request_cap>>

VARIABLES
  \* ---- the consumers of the channel (src/channel.rs, Queues) ----
  consumers,          \* Queues: consumer tag -> what its consumer was told
  cancel_ok_futures,  \* the basic_cancel_ok futures internal_rpc holds
  cancel_oks          \* the Basic.CancelOk frames sent, by consumer tag

regVars == <<consumers, cancel_ok_futures, cancel_oks>>

VARIABLES
  \* ---- the subscriber of each consumer (futures/src/consumer.rs) ----
  inners              \* consumer tag -> its ConsumerInner

innerVars == <<inners>>

VARIABLES
  \* ---- the TcpStream of the connection (src/stream.rs) ----
  stream,             \* TcpStream.0: Inner, with what it holds
  stream_result,      \* what the last call on the stream returned
  handshakes,         \* calls of handshake made so far
  reads,              \* read calls forwarded to the tcp stream
  writes              \* write calls forwarded to the tcp stream

streamVars == <<stream, stream_result, handshakes, reads, writes>>

vars == <<apiVars, chanVars, sendVars, consVars, connVars, contVars, peerVars,
          callVars, capVars, regVars, innerVars, streamVars>>

(***************************************************************************)
(* Finite maps (HashMap)                                                   *)
(***************************************************************************)
EmptyMap == [k \in {} |-> 0]
MapPut(f, k, v) == [x \in (DOMAIN f) \cup {k} |-> IF x = k THEN v ELSE f[x]]
MapRemove(f, k) == [x \in (DOMAIN f) \ {k} |-> f[x]]

(***************************************************************************)
(* async/src/api.rs: ChannelState and Answer                               *)
(***************************************************************************)
ChannelState(tag, queue, consumer, remaining) ==
  [tag |-> tag, queue |-> queue, consumer |-> consumer, remaining |-> remaining]

Initial == ChannelState("Initial", "", NoStr, 0)
Connected == ChannelState("Connected", "", NoStr, 0)
Closed == ChannelState("Closed", "", NoStr, 0)
Error == ChannelState("Error", "", NoStr, 0)
WillReceiveContent(queue, consumer) ==
  ChannelState("WillReceiveContent", queue, consumer, 0)
ReceivingContent(queue, consumer, remaining) ==
  ChannelState("ReceivingContent", queue, consumer, remaining)

\* an entry of Channel.awaiting: the variant, the request id, the captured
\* parameters (strings, numbers, booleans)
Answer(kind, id, strs, nums, bools) ==
  [kind |-> kind, id |-> id, strs |-> strs, nums |-> nums, bools |-> bools]

(***************************************************************************)
(* async/src/channel.rs                                                    *)
(***************************************************************************)
\* Channel::new
Channel_new ==
  [state |-> Initial, send_flow |-> TRUE, receive_flow |-> TRUE,
   queues |-> EmptyMap, prefetch_size |-> 0, prefetch_count |-> 0,
   awaiting |-> <<>>]

\* Channel::is_connected
is_connected(c) ==
  c.state # Initial /\ c.state # Closed /\ c.state # Error

(***************************************************************************)
(* The Connection helpers api.rs calls (connection.rs)                     *)
(***************************************************************************)
\* Connection::check_state
check_state(ch, state) == channels[ch].state = state

\* Connection::set_channel_state
set_channel_state(chs, ch, state) == [chs EXCEPT ![ch].state = state]

\* Connection::push_back_answer
push_back_answer(chs, ch, answer) ==
  [chs EXCEPT ![ch].awaiting = Append(@, answer)]

\* Connection::get_next_answer: the head of the channel's awaiting queue
\* (None when it is empty) ...
next_answer(chs, ch) ==
  IF chs[ch].awaiting = <<>> THEN Answer("None", 0, <<>>, <<>>, <<>>)
  ELSE Head(chs[ch].awaiting)

\* ... which the call removes from the queue
pop_answer(chs, ch) ==
  IF chs[ch].awaiting = <<>> THEN chs
  ELSE [chs EXCEPT ![ch].awaiting = Tail(@)]

\* Connection::send_method_frame: queue the method frame for the writer
send_method_frame(fq, ch, method) == Append(fq, <<ch, method>>)

\* a method frame's content: its name and the argument the model keeps
Method(name, arg) == <<name, arg>>
BoolStr(b) == IF b THEN "true" ELSE "false"

\* what the last call returned
Ret(op, ch, res) == res

\* the call returns an error and has changed nothing
Rejected(op, ch, err) ==
  /\ ret' = Ret(op, ch, err)
  /\ UNCHANGED <<channels, frame_queue, request_index, finished_reqs,
                 finished_get_reqs, prefetch_size, prefetch_count>>

\* the common part of a request that expects a reply: after the two checks,
\* send the method frame, take the next request id, record the answer
\* (chs is the channel map with the request's other effects applied)
SendRequest(op, ch, method, chs, kind, strs, nums, bools) ==
  /\ request_index < request_cap
  /\ Len(frame_queue) < MaxFrames
  /\ frame_queue' = send_method_frame(frame_queue, ch, method)
  /\ request_index' = request_index + 1
  /\ channels' = push_back_answer(chs, ch,
                     Answer(kind, request_index, strs, nums, bools))
  /\ ret' = Ret(op, ch, "Ok")
  /\ UNCHANGED <<finished_reqs, finished_get_reqs, prefetch_size,
                 prefetch_count>>

\* the common part of a request that expects no reply
SendOnly(op, ch, method) ==
  /\ Len(frame_queue) < MaxFrames
  /\ frame_queue' = send_method_frame(frame_queue, ch, method)
  /\ ret' = Ret(op, ch, "Ok")
  /\ UNCHANGED <<channels, request_index, finished_reqs, finished_get_reqs,
                 prefetch_size, prefetch_count>>

(***************************************************************************)
(* async/src/api.rs: the request operations                                *)
(***************************************************************************)
channel_open(ch) ==
  IF ch \notin DOMAIN channels THEN Rejected("channel_open", ch, "InvalidChannel")
  ELSE IF ~check_state(ch, Initial) THEN
    /\ channels' = set_channel_state(channels, ch, Error)
    /\ ret' = Ret("channel_open", ch, "InvalidState")
    /\ UNCHANGED <<frame_queue, request_index, finished_reqs,
                   finished_get_reqs, prefetch_size, prefetch_count>>
  ELSE SendRequest("channel_open", ch, Method("Channel.Open", ""), channels,
                   "AwaitingChannelOpenOk", <<>>, <<>>, <<>>)

channel_flow(ch, active) ==
  IF ch \notin DOMAIN channels THEN Rejected("channel_flow", ch, "InvalidChannel")
  ELSE IF ~is_connected(channels[ch]) THEN Rejected("channel_flow", ch, "InvalidState")
  ELSE SendRequest("channel_flow", ch, Method("Channel.Flow", BoolStr(active)), channels,
                   "AwaitingChannelFlowOk", <<>>, <<>>, <<>>)

channel_close(ch) ==
  IF ch \notin DOMAIN channels THEN Rejected("channel_close", ch, "InvalidChannel")
  ELSE IF ~is_connected(channels[ch]) THEN Rejected("channel_close", ch, "InvalidState")
  ELSE SendRequest("channel_close", ch, Method("Channel.Close", ""), channels,
                   "AwaitingChannelCloseOk", <<>>, <<>>, <<>>)

\* Queue::new, as queue_declare inserts it
Queue_new ==
  [created |-> FALSE, bindings |-> EmptyMap, consumers |-> EmptyMap,
   current_get_message |-> FALSE]

queue_declare(ch, queue) ==
  IF ch \notin DOMAIN channels THEN Rejected("queue_declare", ch, "InvalidChannel")
  ELSE IF ~is_connected(channels[ch]) THEN Rejected("queue_declare", ch, "InvalidState")
  ELSE SendRequest("queue_declare", ch, Method("Queue.Declare", queue),
                   [channels EXCEPT ![ch].queues = MapPut(@, queue, Queue_new)],
                   "AwaitingQueueDeclareOk", <<>>, <<>>, <<>>)

queue_bind(ch, queue, exchange, routing_key) ==
  IF ch \notin DOMAIN channels THEN Rejected("queue_bind", ch, "InvalidChannel")
  ELSE IF ~is_connected(channels[ch]) THEN Rejected("queue_bind", ch, "InvalidState")
  ELSE SendRequest("queue_bind", ch, Method("Queue.Bind", queue),
                   IF queue \in DOMAIN channels[ch].queues
                   THEN [channels EXCEPT ![ch].queues[queue].bindings =
                           MapPut(@, <<exchange, routing_key>>, FALSE)]
                   ELSE channels,
                   "AwaitingQueueBindOk", <<exchange, routing_key>>, <<>>, <<>>)

queue_purge(ch, queue) ==
  IF ch \notin DOMAIN channels THEN Rejected("queue_purge", ch, "InvalidChannel")
  ELSE IF ~is_connected(channels[ch]) THEN Rejected("queue_purge", ch, "InvalidState")
  ELSE SendRequest("queue_purge", ch, Method("Queue.Purge", queue), channels,
                   "AwaitingQueuePurgeOk", <<queue>>, <<>>, <<>>)

queue_delete(ch, queue) ==
  IF ch \notin DOMAIN channels THEN Rejected("queue_delete", ch, "InvalidChannel")
  ELSE IF ~is_connected(channels[ch]) THEN Rejected("queue_delete", ch, "InvalidState")
  ELSE SendRequest("queue_delete", ch, Method("Queue.Delete", queue), channels,
                   "AwaitingQueueDeleteOk", <<queue>>, <<>>, <<>>)

queue_unbind(ch, queue, exchange, routing_key) ==
  IF ch \notin DOMAIN channels THEN Rejected("queue_unbind", ch, "InvalidChannel")
  ELSE IF ~is_connected(channels[ch]) THEN Rejected("queue_unbind", ch, "InvalidState")
  ELSE SendRequest("queue_unbind", ch, Method("Queue.Unbind", queue), channels,
                   "AwaitingQueueUnbindOk", <<exchange, routing_key>>, <<>>, <<>>)

basic_qos(ch, size, count, global) ==
  IF ch \notin DOMAIN channels THEN Rejected("basic_qos", ch, "InvalidChannel")
  ELSE IF ~is_connected(channels[ch]) THEN Rejected("basic_qos", ch, "InvalidState")
  ELSE SendRequest("basic_qos", ch, Method("Basic.Qos", BoolStr(global)), channels,
                   "AwaitingBasicQosOk", <<>>, <<size, count>>, <<global>>)

basic_consume(ch, queue, consumer_tag, flags) ==
  IF ch \notin DOMAIN channels THEN Rejected("basic_consume", ch, "InvalidChannel")
  ELSE IF ~is_connected(channels[ch]) THEN Rejected("basic_consume", ch, "InvalidState")
  ELSE SendRequest("basic_consume", ch, Method("Basic.Consume", queue), channels,
                   "AwaitingBasicConsumeOk", <<queue, consumer_tag>>, <<>>, flags)

basic_cancel(ch, consumer_tag) ==
  IF ch \notin DOMAIN channels THEN Rejected("basic_cancel", ch, "InvalidChannel")
  ELSE IF ~is_connected(channels[ch]) THEN Rejected("basic_cancel", ch, "InvalidState")
  ELSE SendRequest("basic_cancel", ch, Method("Basic.Cancel", consumer_tag), channels,
                   "AwaitingBasicCancelOk", <<>>, <<>>, <<>>)

basic_get(ch, queue) ==
  IF ch \notin DOMAIN channels THEN Rejected("basic_get", ch, "InvalidChannel")
  ELSE IF ~is_connected(channels[ch]) THEN Rejected("basic_get", ch, "InvalidState")
  ELSE SendRequest("basic_get", ch, Method("Basic.Get", queue), channels,
                   "AwaitingBasicGetAnswer", <<queue>>, <<>>, <<>>)

basic_recover(ch) ==
  IF ch \notin DOMAIN channels THEN Rejected("basic_recover", ch, "InvalidChannel")
  ELSE IF ~is_connected(channels[ch]) THEN Rejected("basic_recover", ch, "InvalidState")
  ELSE SendRequest("basic_recover", ch, Method("Basic.Recover", ""), channels,
                   "AwaitingBasicRecoverOk", <<>>, <<>>, <<>>)

\* the operations that expect no reply
basic_publish(ch) ==
  IF ch \notin DOMAIN channels THEN Rejected("basic_publish", ch, "InvalidChannel")
  ELSE IF ~is_connected(channels[ch]) THEN Rejected("basic_publish", ch, "InvalidState")
  ELSE SendOnly("basic_publish", ch, Method("Basic.Publish", ""))

basic_ack(ch) ==
  IF ch \notin DOMAIN channels THEN Rejected("basic_ack", ch, "InvalidChannel")
  ELSE IF ~is_connected(channels[ch]) THEN Rejected("basic_ack", ch, "InvalidState")
  ELSE SendOnly("basic_ack", ch, Method("Basic.Ack", ""))

basic_reject(ch) ==
  IF ch \notin DOMAIN channels THEN Rejected("basic_reject", ch, "InvalidChannel")
  ELSE IF ~is_connected(channels[ch]) THEN Rejected("basic_reject", ch, "InvalidState")
  ELSE SendOnly("basic_reject", ch, Method("Basic.Reject", ""))

basic_recover_async(ch) ==
  IF ch \notin DOMAIN channels THEN Rejected("basic_recover_async", ch, "InvalidChannel")
  ELSE IF ~is_connected(channels[ch]) THEN Rejected("basic_recover_async", ch, "InvalidState")
  ELSE SendOnly("basic_recover_async", ch, Method("Basic.RecoverAsync", ""))

basic_nack(ch) ==
  IF ch \notin DOMAIN channels THEN Rejected("basic_nack", ch, "InvalidChannel")
  ELSE IF ~is_connected(channels[ch]) THEN Rejected("basic_nack", ch, "InvalidState")
  ELSE SendOnly("basic_nack", ch, Method("Basic.Nack", ""))

(***************************************************************************)
(* async/src/api.rs: the handlers of received methods                      *)
(***************************************************************************)
\* the common shape of a reply handler: the two checks, then the match on
\* get_next_answer; chsOk, fin and the rest are the matching arm's results,
\* the other arm sets the channel to Error
ReceiveReply(op, ch, kind, chsOk, fin, fget, psize, pcount) ==
  IF ch \notin DOMAIN channels THEN Rejected(op, ch, "InvalidChannel")
  ELSE IF ~is_connected(channels[ch]) THEN Rejected(op, ch, "InvalidState")
  ELSE IF next_answer(channels, ch).kind = kind THEN
    /\ channels' = chsOk
    /\ finished_reqs' = fin
    /\ finished_get_reqs' = fget
    /\ prefetch_size' = psize
    /\ prefetch_count' = pcount
    /\ ret' = Ret(op, ch, "Ok")
    /\ UNCHANGED <<frame_queue, request_index>>
  ELSE
    /\ channels' = set_channel_state(pop_answer(channels, ch), ch, Error)
    /\ ret' = Ret(op, ch, "UnexpectedAnswer")
    /\ UNCHANGED <<frame_queue, request_index, finished_reqs,
                   finished_get_reqs, prefetch_size, prefetch_count>>

\* receive_channel_open_ok that takes the channel to Connected whatever the
\* oldest expected reply is
receive_channel_open_ok_any_answer(ch) ==
  IF ch \notin DOMAIN channels THEN
    Rejected("receive_channel_open_ok", ch, "InvalidChannel")
  ELSE IF ~check_state(ch, Initial) THEN
    /\ channels' = set_channel_state(channels, ch, Error)
    /\ ret' = Ret("receive_channel_open_ok", ch, "InvalidState")
    /\ UNCHANGED <<frame_queue, request_index, finished_reqs,
                   finished_get_reqs, prefetch_size, prefetch_count>>
  ELSE
    /\ finished_reqs' = finished_reqs \cup {next_answer(channels, ch).id}
    /\ channels' = pop_answer(
                     set_channel_state(pop_answer(channels, ch), ch, Connected),
                     ch)
    /\ ret' = Ret("receive_channel_open_ok", ch, "Ok")
    /\ UNCHANGED <<frame_queue, request_index, finished_get_reqs,
                   prefetch_size, prefetch_count>>

receive_channel_open_ok(ch) ==
  IF ch \notin DOMAIN channels THEN
    Rejected("receive_channel_open_ok", ch, "InvalidChannel")
  ELSE IF ~check_state(ch, Initial) THEN
    /\ channels' = set_channel_state(channels, ch, Error)
    /\ ret' = Ret("receive_channel_open_ok", ch, "InvalidState")
    /\ UNCHANGED <<frame_queue, request_index, finished_reqs,
                   finished_get_reqs, prefetch_size, prefetch_count>>
  ELSE IF next_answer(channels, ch).kind = "AwaitingChannelOpenOk" THEN
    \* the matching arm, then set_channel_state and a second get_next_answer
    /\ finished_reqs' = finished_reqs \cup {next_answer(channels, ch).id}
    /\ channels' = pop_answer(
                     set_channel_state(pop_answer(channels, ch), ch, Connected),
                     ch)
    /\ ret' = Ret("receive_channel_open_ok", ch, "Ok")
    /\ UNCHANGED <<frame_queue, request_index, finished_get_reqs,
                   prefetch_size, prefetch_count>>
  ELSE
    /\ channels' = set_channel_state(pop_answer(channels, ch), ch, Error)
    /\ ret' = Ret("receive_channel_open_ok", ch, "UnexpectedAnswer")
    /\ UNCHANGED <<frame_queue, request_index, finished_reqs,
                   finished_get_reqs, prefetch_size, prefetch_count>>

\* channel_flow_ok: the reply to a received Channel.Flow
channel_flow_ok(ch, active) ==
  IF ch \notin DOMAIN channels THEN Rejected("channel_flow_ok", ch, "InvalidChannel")
  ELSE IF ~is_connected(channels[ch]) THEN Rejected("channel_flow_ok", ch, "InvalidState")
  ELSE SendOnly("channel_flow_ok", ch, Method("Channel.FlowOk", BoolStr(active)))

\* receive_channel_flow that takes the value for the receiving direction
receive_channel_flow_sets_receive_flow(ch, active) ==
  IF ch \notin DOMAIN channels THEN
    Rejected("receive_channel_flow", ch, "InvalidChannel")
  ELSE IF ~is_connected(channels[ch]) THEN
    Rejected("receive_channel_flow", ch, "InvalidState")
  ELSE
    /\ Len(frame_queue) < MaxFrames
    /\ channels' = [channels EXCEPT ![ch].receive_flow = active]
    /\ frame_queue' = send_method_frame(frame_queue, ch,
                                        Method("Channel.FlowOk", BoolStr(active)))
    /\ ret' = Ret("receive_channel_flow", ch, "Ok")
    /\ UNCHANGED <<request_index, finished_reqs, finished_get_reqs,
                   prefetch_size, prefetch_count>>

receive_channel_flow(ch, active) ==
  IF ch \notin DOMAIN channels THEN
    Rejected("receive_channel_flow", ch, "InvalidChannel")
  ELSE IF ~is_connected(channels[ch]) THEN
    Rejected("receive_channel_flow", ch, "InvalidState")
  ELSE
    \* set send_flow, then channel_flow_ok, whose checks pass again
    /\ Len(frame_queue) < MaxFrames
    /\ channels' = [channels EXCEPT ![ch].send_flow = active]
    /\ frame_queue' = send_method_frame(frame_queue, ch,
                                        Method("Channel.FlowOk", BoolStr(active)))
    /\ ret' = Ret("receive_channel_flow", ch, "Ok")
    /\ UNCHANGED <<request_index, finished_reqs, finished_get_reqs,
                   prefetch_size, prefetch_count>>

receive_channel_flow_ok(ch, active) ==
  ReceiveReply("receive_channel_flow_ok", ch, "AwaitingChannelFlowOk",
    \* the matching arm ends with a second get_next_answer
    pop_answer([pop_answer(channels, ch) EXCEPT ![ch].receive_flow = active], ch),
    finished_reqs \cup {next_answer(channels, ch).id},
    finished_get_reqs, prefetch_size, prefetch_count)

\* channel_close_ok: the reply to a received Channel.Close; chs is the
\* channel map as receive_channel_close left it
channel_close_ok_result(chs, ch) ==
  IF ch \notin DOMAIN chs THEN "InvalidChannel"
  ELSE IF ~is_connected(chs[ch]) THEN "InvalidState"
  ELSE "Ok"

receive_channel_close(ch) ==
  IF ch \notin DOMAIN channels THEN
    Rejected("receive_channel_close", ch, "InvalidChannel")
  ELSE IF ~is_connected(channels[ch]) THEN
    Rejected("receive_channel_close", ch, "InvalidState")
  ELSE
    LET chs == set_channel_state(pop_answer(channels, ch), ch, Closed)
        res == channel_close_ok_result(chs, ch)
    IN /\ res = "Ok" => Len(frame_queue) < MaxFrames
       /\ channels' = chs
       /\ frame_queue' = IF res = "Ok"
                         THEN send_method_frame(frame_queue, ch,
                                                Method("Channel.CloseOk", ""))
                         ELSE frame_queue
       /\ ret' = Ret("receive_channel_close", ch, res)
       /\ UNCHANGED <<request_index, finished_reqs, finished_get_reqs,
                      prefetch_size, prefetch_count>>

receive_channel_close_ok(ch) ==
  ReceiveReply("receive_channel_close_ok", ch, "AwaitingChannelCloseOk",
    set_channel_state(pop_answer(channels, ch), ch, Closed),
    finished_reqs \cup {next_answer(channels, ch).id},
    finished_get_reqs, prefetch_size, prefetch_count)

receive_queue_declare_ok(ch, queue) ==
  LET popped == pop_answer(channels, ch) IN
  ReceiveReply("receive_queue_declare_ok", ch, "AwaitingQueueDeclareOk",
    IF queue \in DOMAIN popped[ch].queues
    THEN [popped EXCEPT ![ch].queues[queue].created = TRUE]
    ELSE popped,
    finished_reqs \cup {next_answer(channels, ch).id},
    finished_get_reqs, prefetch_size, prefetch_count)

\* receive_queue_bind_ok whose non-matching arm forgets set_channel_state
receive_queue_bind_ok_keeps_state(ch) ==
  IF ch \notin DOMAIN channels THEN
    Rejected("receive_queue_bind_ok", ch, "InvalidChannel")
  ELSE IF ~is_connected(channels[ch]) THEN
    Rejected("receive_queue_bind_ok", ch, "InvalidState")
  ELSE
    /\ channels' = pop_answer(channels, ch)
    /\ ret' = Ret("receive_queue_bind_ok", ch,
                  IF next_answer(channels, ch).kind = "AwaitingQueueBindOk"
                  THEN "Ok" ELSE "UnexpectedAnswer")
    /\ finished_reqs' =
         IF next_answer(channels, ch).kind = "AwaitingQueueBindOk"
         THEN finished_reqs \cup {next_answer(channels, ch).id}
         ELSE finished_reqs
    /\ UNCHANGED <<frame_queue, request_index, finished_get_reqs,
                   prefetch_size, prefetch_count>>

receive_queue_bind_ok(ch) ==
  LET popped == pop_answer(channels, ch)
      a == next_answer(channels, ch)
      key == <<a.strs[1], a.strs[2]>>
  IN
  ReceiveReply("receive_queue_bind_ok", ch, "AwaitingQueueBindOk",
    [popped EXCEPT ![ch].queues =
       [q \in DOMAIN @ |->
          IF key \in DOMAIN @[q].bindings
          THEN [@[q] EXCEPT !.bindings[key] = TRUE]
          ELSE @[q]]],
    finished_reqs \cup {a.id},
    finished_get_reqs, prefetch_size, prefetch_count)

receive_queue_purge_ok(ch) ==
  ReceiveReply("receive_queue_purge_ok", ch, "AwaitingQueuePurgeOk",
    pop_answer(channels, ch),
    finished_reqs \cup {next_answer(channels, ch).id},
    finished_get_reqs, prefetch_size, prefetch_count)

receive_queue_delete_ok(ch) ==
  LET popped == pop_answer(channels, ch)
      a == next_answer(channels, ch)
  IN
  ReceiveReply("receive_queue_delete_ok", ch, "AwaitingQueueDeleteOk",
    [popped EXCEPT ![ch].queues = MapRemove(@, a.strs[1])],
    finished_reqs \cup {a.id},
    finished_get_reqs, prefetch_size, prefetch_count)

receive_queue_unbind_ok(ch) ==
  LET popped == pop_answer(channels, ch)
      a == next_answer(channels, ch)
      key == <<a.strs[1], a.strs[2]>>
  IN
  ReceiveReply("receive_queue_unbind_ok", ch, "AwaitingQueueUnbindOk",
    [popped EXCEPT ![ch].queues =
       [q \in DOMAIN @ |-> [@[q] EXCEPT !.bindings = MapRemove(@, key)]]],
    finished_reqs \cup {a.id},
    finished_get_reqs, prefetch_size, prefetch_count)

\* receive_basic_qos_ok that takes the global flag the other way round
receive_basic_qos_ok_swaps_levels(ch) ==
  LET popped == pop_answer(channels, ch)
      a == next_answer(channels, ch)
  IN
  ReceiveReply("receive_basic_qos_ok", ch, "AwaitingBasicQosOk",
    IF ~a.bools[1] THEN popped
    ELSE [popped EXCEPT ![ch].prefetch_size = a.nums[1],
                        ![ch].prefetch_count = a.nums[2]],
    finished_reqs \cup {a.id},
    finished_get_reqs,
    IF ~a.bools[1] THEN a.nums[1] ELSE prefetch_size,
    IF ~a.bools[1] THEN a.nums[2] ELSE prefetch_count)

receive_basic_qos_ok(ch) ==
  LET popped == pop_answer(channels, ch)
      a == next_answer(channels, ch)
  IN
  ReceiveReply("receive_basic_qos_ok", ch, "AwaitingBasicQosOk",
    IF a.bools[1] THEN popped
    ELSE [popped EXCEPT ![ch].prefetch_size = a.nums[1],
                        ![ch].prefetch_count = a.nums[2]],
    finished_reqs \cup {a.id},
    finished_get_reqs,
    IF a.bools[1] THEN a.nums[1] ELSE prefetch_size,
    IF a.bools[1] THEN a.nums[2] ELSE prefetch_count)

\* Consumer as receive_basic_consume_ok builds it
Consumer_new(flags) ==
  [flags |-> flags, current_message |-> FALSE, messages |-> 0]

receive_basic_consume_ok(ch, consumer_tag) ==
  LET popped == pop_answer(channels, ch)
      a == next_answer(channels, ch)
  IN
  ReceiveReply("receive_basic_consume_ok", ch, "AwaitingBasicConsumeOk",
    IF a.strs[1] \in DOMAIN popped[ch].queues
    THEN [popped EXCEPT ![ch].queues[a.strs[1]].consumers =
            MapPut(@, consumer_tag, Consumer_new(a.bools))]
    ELSE popped,
    finished_reqs \cup {a.id},
    finished_get_reqs, prefetch_size, prefetch_count)

receive_basic_cancel_ok(ch, consumer_tag) ==
  LET popped == pop_answer(channels, ch) IN
  ReceiveReply("receive_basic_cancel_ok", ch, "AwaitingBasicCancelOk",
    [popped EXCEPT ![ch].queues =
       [q \in DOMAIN @ |->
          [@[q] EXCEPT !.consumers = MapRemove(@, consumer_tag)]]],
    finished_reqs \cup {next_answer(channels, ch).id},
    finished_get_reqs, prefetch_size, prefetch_count)

receive_basic_amqp_return(ch) ==
  IF ch \notin DOMAIN channels THEN
    Rejected("receive_basic_amqp_return", ch, "InvalidChannel")
  ELSE IF ~is_connected(channels[ch]) THEN
    Rejected("receive_basic_amqp_return", ch, "InvalidState")
  ELSE Rejected("receive_basic_amqp_return", ch, "Ok")

\* the loop over c.queues sets the state once per queue, so the state names
\* the queue the HashMap iterates last (any of them), and gives every
\* consumer with the tag a current message
receive_basic_deliver(ch, consumer_tag) ==
  IF ch \notin DOMAIN channels THEN
    Rejected("receive_basic_deliver", ch, "InvalidChannel")
  ELSE IF ~is_connected(channels[ch]) THEN
    Rejected("receive_basic_deliver", ch, "InvalidState")
  ELSE
    /\ \/ /\ DOMAIN channels[ch].queues = {}
          /\ UNCHANGED channels
       \/ \E last \in DOMAIN channels[ch].queues :
            channels' =
              [channels EXCEPT
                 ![ch].state = WillReceiveContent(last, consumer_tag),
                 ![ch].queues =
                   [q \in DOMAIN @ |->
                      IF consumer_tag \in DOMAIN @[q].consumers
                      THEN [@[q] EXCEPT
                              !.consumers[consumer_tag].current_message = TRUE]
                      ELSE @[q]]]
    /\ ret' = Ret("receive_basic_deliver", ch, "Ok")
    /\ UNCHANGED <<frame_queue, request_index, finished_reqs,
                   finished_get_reqs, prefetch_size, prefetch_count>>

receive_basic_get_ok(ch) ==
  LET popped == pop_answer(channels, ch)
      a == next_answer(channels, ch)
      will == set_channel_state(popped, ch, WillReceiveContent(a.strs[1], NoStr))
  IN
  ReceiveReply("receive_basic_get_ok", ch, "AwaitingBasicGetAnswer",
    IF a.strs[1] \in DOMAIN will[ch].queues
    THEN [will EXCEPT ![ch].queues[a.strs[1]].current_get_message = TRUE]
    ELSE will,
    finished_reqs,
    MapPut(finished_get_reqs, a.id, TRUE),
    prefetch_size, prefetch_count)

\* receive_basic_get_empty that records "no message" and leaves the pending
\* get at the head of the expected replies
receive_basic_get_empty_keeps_entry(ch) ==
  ReceiveReply("receive_basic_get_empty", ch, "AwaitingBasicGetAnswer",
    channels,
    finished_reqs,
    MapPut(finished_get_reqs, next_answer(channels, ch).id, FALSE),
    prefetch_size, prefetch_count)

receive_basic_get_empty(ch) ==
  ReceiveReply("receive_basic_get_empty", ch, "AwaitingBasicGetAnswer",
    pop_answer(channels, ch),
    finished_reqs,
    MapPut(finished_get_reqs, next_answer(channels, ch).id, FALSE),
    prefetch_size, prefetch_count)

receive_basic_recover_ok(ch) ==
  ReceiveReply("receive_basic_recover_ok", ch, "AwaitingBasicRecoverOk",
    pop_answer(channels, ch),
    finished_reqs \cup {next_answer(channels, ch).id},
    finished_get_reqs, prefetch_size, prefetch_count)

(***************************************************************************)
(* Content frames received on a channel of the Connection (connection.rs)  *)
(***************************************************************************)
\* a content header announcing size bytes: the assembly begun by
\* Basic.Deliver or Basic.GetOk starts to receive (or is complete when
\* size = 0); without such an assembly the channel is in error
Connection_handle_content_header_frame(ch, size) ==
  /\ ch \in DOMAIN channels
  /\ LET st == channels[ch].state IN
     channels' =
       IF st.tag = "WillReceiveContent" THEN
         IF size > 0
         THEN set_channel_state(channels, ch,
                                ReceivingContent(st.queue, st.consumer, size))
         ELSE set_channel_state(channels, ch, Connected)
       ELSE set_channel_state(channels, ch, Error)
  /\ ret' = Ret("handle_content_header_frame", ch, "Ok")
  /\ UNCHANGED <<frame_queue, request_index, finished_reqs,
                 finished_get_reqs, prefetch_size, prefetch_count>>

\* a body frame of size bytes: remaining decreases, the assembly ends at 0;
\* a frame larger than remaining, or outside an assembly, is an error
Connection_handle_body_frame(ch, size) ==
  /\ ch \in DOMAIN channels
  /\ LET st == channels[ch].state IN
     channels' =
       IF st.tag = "ReceivingContent" /\ st.remaining >= size THEN
         IF st.remaining = size
         THEN set_channel_state(channels, ch, Connected)
         ELSE set_channel_state(channels, ch,
                ReceivingContent(st.queue, st.consumer, st.remaining - size))
       ELSE set_channel_state(channels, ch, Error)
  /\ ret' = Ret("handle_body_frame", ch, "Ok")
  /\ UNCHANGED <<frame_queue, request_index, finished_reqs,
                 finished_get_reqs, prefetch_size, prefetch_count>>

(***************************************************************************)
(* History of the exchange with the broker                                 *)
(***************************************************************************)
\* a request step: the expected reply it recorded is now owed by the broker
GhostSend(ch) ==
  /\ owed' = IF /\ ch \in ChannelIds
                /\ inorder[ch]
                /\ Len(channels'[ch].awaiting) > Len(channels[ch].awaiting)
             THEN [owed EXCEPT ![ch] =
                     Append(@, channels'[ch].awaiting[Len(channels'[ch].awaiting)])]
             ELSE owed
  /\ UNCHANGED <<replied, inorder>>

\* the broker stopped answering in order on ch
GhostBreak(ch) ==
  IF ch \in ChannelIds
  THEN /\ inorder' = [inorder EXCEPT ![ch] = FALSE]
       /\ owed' = [owed EXCEPT ![ch] = <<>>]
       /\ replied' = [replied EXCEPT ![ch] = {}]
  ELSE UNCHANGED <<owed, replied, inorder>>

\* a reply of the given kind arrives: it answers the oldest owed request, or
\* the replies are no longer in request order; nothing is owed once the
\* close has been answered
GhostRecv(ch, kind) ==
  IF ch \notin ChannelIds \/ ~inorder[ch] THEN UNCHANGED <<owed, replied, inorder>>
  ELSE IF owed[ch] # <<>> /\ Head(owed[ch]).kind = kind THEN
    /\ replied' = [replied EXCEPT ![ch] = @ \cup {Head(owed[ch]).id}]
    /\ owed' = [owed EXCEPT ![ch] =
                  IF kind = "AwaitingChannelCloseOk" THEN <<>> ELSE Tail(@)]
    /\ UNCHANGED inorder
  ELSE GhostBreak(ch)

\* a step that is neither a request nor a reply
GhostSkip == UNCHANGED <<owed, replied, inorder>>

(***************************************************************************)
(* The lapin-async Connection: specification                               *)
(***************************************************************************)
InitApi ==
  /\ channels = [ch \in ChannelIds |-> Channel_new]
  /\ frame_queue = <<>>
  /\ request_index = 0
  /\ finished_reqs = {}
  /\ finished_get_reqs = EmptyMap
  /\ prefetch_size = 0
  /\ prefetch_count = 0
  /\ ret = Ret("new", 0, "Ok")
  /\ owed = [ch \in ChannelIds |-> <<>>]
  /\ replied = [ch \in ChannelIds |-> {}]
  /\ inorder = [ch \in ChannelIds |-> TRUE]

(***************************************************************************)
(* src/channel.rs: publisher confirms and closing of a Channel             *)
(***************************************************************************)
Tags == 1..MaxTag

\* the errors a channel is closed with
ClosedError == "InvalidChannelState(Closed)"
ClosingError == "InvalidChannelState(Closing)"
ServerCloseErrors == {"ProtocolError(server)", ClosingError}
FrameError == "ProtocolError(FRAME_ERROR)"
PreconditionFailed == "ProtocolError(PRECONDITION_FAILED)"

\* Channel::new: ChannelStatus::default(), IdSequence::new(false),
\* Acknowledgements::new
InitChannel ==
  /\ status = [state |-> "Initial", confirm |-> FALSE]
  /\ delivery_tag = 0
  /\ acknowledgements = {}
  /\ confirms = [t \in Tags |-> <<>>]
  /\ expected_close_ok = FALSE
  /\ internal_rpc = {}
  /\ removed = <<>>
  /\ result = "Ok"

\* Channel::set_state
set_state(state) == status' = [status EXCEPT !.state = state]

\* Acknowledgements: resolve the promises of the given pending tags
resolve_pending(tags, outcome) ==
  /\ acknowledgements' = acknowledgements \ tags
  /\ confirms' = [t \in Tags |->
                    IF t \in tags THEN Append(confirms[t], outcome)
                    ELSE confirms[t]]

\* Acknowledgements::register_pending
register_pending(tag) ==
  /\ acknowledgements' = acknowledgements \cup {tag}
  /\ UNCHANGED confirms

\* Acknowledgements::on_channel_error: every pending promise fails
on_channel_error(error) == resolve_pending(acknowledgements, error)

\* Channel::error_publisher_confirms
error_publisher_confirms(error) == on_channel_error(error)

\* InternalRPC::remove_channel
remove_channel(error) == removed' = Append(removed, error)

\* Channel::set_closed whose publisher confirms are left pending
set_closed_keeps_confirms(error) ==
  /\ set_state("Closed")
  /\ UNCHANGED <<acknowledgements, confirms>>
  /\ remove_channel(error)

\* Channel::set_closed
set_closed(error) ==
  /\ set_state("Closed")
  /\ error_publisher_confirms(error)
  /\ remove_channel(error)

\* Channel::set_error
set_error(error) ==
  /\ set_state("Error")
  /\ error_publisher_confirms(error)
  /\ remove_channel(error)

\* the call returns an error and has changed nothing
Refused(err) ==
  /\ result' = err
  /\ UNCHANGED <<status, delivery_tag, acknowledgements, confirms,
                 expected_close_ok, internal_rpc, removed>>

\* ChannelStatus: the states in which the generated code takes a request
\* (connected), a message of the broker (can_receive_messages), a close
status_connected == status.state = "Connected"
status_can_receive_messages == status.state \in {"Connected", "Closing"}
status_closing == status.state = "Closing"

\* Channel::on_channel_open_ok_received, called for a Channel.OpenOk
\* received on a channel that has just been created
on_channel_open_ok_received ==
  IF status.state # "Initial" THEN Refused("InvalidChannelState")
  ELSE /\ set_state("Connected")
       /\ result' = "Ok"
       /\ UNCHANGED <<delivery_tag, acknowledgements, confirms,
                      expected_close_ok, internal_rpc, removed>>

\* Channel::on_confirm_select_ok_received: status.set_confirm()
on_confirm_select_ok_received ==
  IF ~status_connected THEN Refused("InvalidChannelState")
  ELSE /\ status' = [status EXCEPT !.confirm = TRUE]
       /\ result' = "Ok"
       /\ UNCHANGED <<delivery_tag, acknowledgements, confirms,
                      expected_close_ok, internal_rpc, removed>>

\* before_basic_publish that takes the tag and registers nothing
before_basic_publish_no_pending ==
  /\ delivery_tag' = IF status.confirm THEN delivery_tag + 1 ELSE delivery_tag
  /\ UNCHANGED <<acknowledgements, confirms>>
  /\ result' = IF status.confirm THEN "PublisherConfirm" ELSE "NotRequested"

\* before_basic_publish that skips a delivery tag
before_basic_publish_skips_tag ==
  IF status.confirm
  THEN /\ delivery_tag' = IF delivery_tag = 1 THEN 3 ELSE delivery_tag + 1
       /\ register_pending(IF delivery_tag = 1 THEN 3 ELSE delivery_tag + 1)
       /\ result' = "PublisherConfirm"
  ELSE /\ UNCHANGED <<delivery_tag, acknowledgements, confirms>>
       /\ result' = "NotRequested"

\* Channel::before_basic_publish: in confirm mode take the next delivery
\* tag and register its pending confirmation
before_basic_publish ==
  IF status.confirm
  THEN /\ delivery_tag' = delivery_tag + 1
       /\ register_pending(delivery_tag + 1)
       /\ result' = "PublisherConfirm"
  ELSE /\ UNCHANGED <<delivery_tag, acknowledgements, confirms>>
       /\ result' = "NotRequested"

\* Channel::basic_publish: the state check, then before_basic_publish (the
\* frames it sends are the matter of SpecSend)
Channel_basic_publish ==
  IF ~status_connected THEN Refused("InvalidChannelState")
  ELSE /\ delivery_tag < MaxTag
       /\ before_basic_publish
       /\ UNCHANGED <<status, expected_close_ok, internal_rpc, removed>>

\* Channel::acknowledgement_error: schedule the closing of the channel and
\* fail with the protocol error
acknowledgement_error ==
  /\ internal_rpc' = internal_rpc \cup {[call |-> "do_channel_close", error |-> ""]}
  /\ result' = PreconditionFailed
  /\ UNCHANGED <<status, delivery_tag, acknowledgements, confirms,
                 expected_close_ok, removed>>

\* the handler has resolved the given pending tags
Acknowledged(tags, outcome) ==
  /\ resolve_pending(tags, outcome)
  /\ result' = "Ok"
  /\ UNCHANGED <<status, delivery_tag, expected_close_ok, internal_rpc, removed>>

\* the shape on_basic_ack_received and on_basic_nack_received share
on_confirmation_received(tag, multiple, outcome) ==
  IF status.confirm THEN
    IF multiple THEN
      IF tag > 0
      THEN \* ack_all_before / nack_all_before
           Acknowledged({t \in acknowledgements : t <= tag}, outcome)
      ELSE \* ack_all_pending / nack_all_pending
           Acknowledged(acknowledgements, outcome)
    ELSE
      IF tag \in acknowledgements
      THEN \* ack / nack
           Acknowledged({tag}, outcome)
      ELSE acknowledgement_error
  ELSE Refused("Ok")

\* on_basic_ack_received whose cumulative branch resolves every pending tag
on_basic_ack_received_all_pending(tag, multiple) ==
  on_confirmation_received(IF multiple THEN 0 ELSE tag, multiple, "Ack")

\* Channel::on_basic_ack_received
on_basic_ack_received(tag, multiple) ==
  on_confirmation_received(tag, multiple, "Ack")

\* Channel::on_basic_nack_received
on_basic_nack_received(tag, multiple) ==
  on_confirmation_received(tag, multiple, "Nack")

\* Channel::receive_basic_ack / receive_basic_nack: the state check of the
\* generated code, then the handler
receive_basic_ack(tag, multiple) ==
  IF ~status_can_receive_messages THEN Refused("InvalidChannelState")
  ELSE on_basic_ack_received(tag, multiple)

receive_basic_nack(tag, multiple) ==
  IF ~status_can_receive_messages THEN Refused("InvalidChannelState")
  ELSE on_basic_nack_received(tag, multiple)

\* Channel::before_channel_close
before_channel_close == set_state("Closing")

\* Channel::do_channel_close: the state check, before_channel_close, then
\* the Channel.Close frame with its expected reply
do_channel_close ==
  IF ~status_connected THEN
    /\ result' = "InvalidChannelState"
    /\ UNCHANGED <<status, delivery_tag, acknowledgements, confirms,
                   expected_close_ok, removed>>
  ELSE
    /\ before_channel_close
    /\ expected_close_ok' = TRUE
    /\ result' = "Ok"
    /\ UNCHANGED <<delivery_tag, acknowledgements, confirms, removed>>

\* Channel::close
Channel_close == do_channel_close /\ UNCHANGED internal_rpc

\* Channel::on_channel_close_received: Closing, and the reply is scheduled
on_channel_close_received(error) ==
  /\ set_state("Closing")
  /\ internal_rpc' = internal_rpc \cup {[call |-> "channel_close_ok", error |-> error]}
  /\ result' = "Ok"
  /\ UNCHANGED <<delivery_tag, acknowledgements, confirms,
                 expected_close_ok, removed>>

\* Channel::receive_channel_close
Channel_receive_channel_close(error) ==
  IF ~status_connected THEN Refused("InvalidChannelState")
  ELSE on_channel_close_received(error)

\* Channel::on_channel_close_ok_sent
on_channel_close_ok_sent(error) == set_closed(error)

\* Channel::channel_close_ok: the Channel.CloseOk frame is sent, then
\* on_channel_close_ok_sent
Channel_channel_close_ok(error) ==
  IF ~status_closing THEN
    /\ result' = "InvalidChannelState"
    /\ UNCHANGED <<status, delivery_tag, acknowledgements, confirms,
                   expected_close_ok, removed>>
  ELSE
    /\ on_channel_close_ok_sent(error)
    /\ result' = "Ok"
    /\ UNCHANGED <<delivery_tag, expected_close_ok>>

\* the executor runs a future registered with internal_rpc
run_internal_future ==
  \E f \in internal_rpc :
    /\ internal_rpc' = internal_rpc \ {f}
    /\ IF f.call = "do_channel_close" THEN do_channel_close
       ELSE Channel_channel_close_ok(f.error)

\* Channel::on_channel_close_ok_received
on_channel_close_ok_received ==
  /\ set_closed(ClosedError)
  /\ result' = "Ok"

\* Channel::receive_channel_close_ok: the state check and the expected
\* reply, then the handler
Channel_receive_channel_close_ok ==
  IF ~status_closing \/ ~expected_close_ok THEN Refused("InvalidChannelState")
  ELSE /\ expected_close_ok' = FALSE
       /\ on_channel_close_ok_received
       /\ UNCHANGED <<delivery_tag, internal_rpc>>

\* Channel::handle_content_header_frame, for a header the channel cannot
\* take: the connection is closed and the channel set in error
handle_content_header_frame_error ==
  /\ status.state \notin {"Closed", "Error"}
  /\ set_error(FrameError)
  /\ result' = FrameError
  /\ UNCHANGED <<delivery_tag, expected_close_ok, internal_rpc>>

NextChannel ==
  \/ on_channel_open_ok_received /\ UNCHANGED <<apiVars, sendVars, consVars, connVars, contVars, peerVars, callVars, capVars, regVars, innerVars, streamVars>>
  \/ on_confirm_select_ok_received /\ UNCHANGED <<apiVars, sendVars, consVars, connVars, contVars, peerVars, callVars, capVars, regVars, innerVars, streamVars>>
  \/ Channel_basic_publish /\ UNCHANGED <<apiVars, sendVars, consVars, connVars, contVars, peerVars, callVars, capVars, regVars, innerVars, streamVars>>
  \/ \E tag \in 0..MaxTag, multiple \in BOOLEAN :
       receive_basic_ack(tag, multiple) /\ UNCHANGED <<apiVars, sendVars, consVars, connVars, contVars, peerVars, callVars, capVars, regVars, innerVars, streamVars>>
  \/ \E tag \in 0..MaxTag, multiple \in BOOLEAN :
       receive_basic_nack(tag, multiple) /\ UNCHANGED <<apiVars, sendVars, consVars, connVars, contVars, peerVars, callVars, capVars, regVars, innerVars, streamVars>>
  \/ Channel_close /\ UNCHANGED <<apiVars, sendVars, consVars, connVars, contVars, peerVars, callVars, capVars, regVars, innerVars, streamVars>>
  \/ \E error \in ServerCloseErrors :
       Channel_receive_channel_close(error) /\ UNCHANGED <<apiVars, sendVars, consVars, connVars, contVars, peerVars, callVars, capVars, regVars, innerVars, streamVars>>
  \/ run_internal_future /\ UNCHANGED <<apiVars, sendVars, consVars, connVars, contVars, peerVars, callVars, capVars, regVars, innerVars, streamVars>>
  \/ Channel_receive_channel_close_ok /\ UNCHANGED <<apiVars, sendVars, consVars, connVars, contVars, peerVars, callVars, capVars, regVars, innerVars, streamVars>>
  \/ handle_content_header_frame_error /\ UNCHANGED <<apiVars, sendVars, consVars, connVars, contVars, peerVars, callVars, capVars, regVars, innerVars, streamVars>>

(***************************************************************************)
(* A second Channel made by Channel::new on the same connection: it has    *)
(* its own ChannelStatus, IdSequence and Acknowledgements                  *)
(***************************************************************************)
\* Channel::new for the second channel
InitPeer ==
  peer = [confirm |-> FALSE, delivery_tag |-> 0, acknowledgements |-> {}]

\* Channel::on_confirm_select_ok_received on the second channel
Peer_on_confirm_select_ok_received ==
  /\ ~peer.confirm
  /\ peer' = [peer EXCEPT !.confirm = TRUE]

\* Channel::before_basic_publish on the second channel
Peer_before_basic_publish ==
  /\ peer.delivery_tag < MaxTag
  /\ peer' = IF peer.confirm
             THEN [peer EXCEPT !.delivery_tag = @ + 1,
                               !.acknowledgements = @ \cup {peer.delivery_tag + 1}]
             ELSE peer

\* two channels of one connection that publish, with and without confirms
NextTags ==
  \/ on_channel_open_ok_received
       /\ UNCHANGED <<apiVars, sendVars, consVars, connVars, contVars, peerVars, callVars, capVars, regVars, innerVars, streamVars>>
  \/ on_confirm_select_ok_received
       /\ UNCHANGED <<apiVars, sendVars, consVars, connVars, contVars, peerVars, callVars, capVars, regVars, innerVars, streamVars>>
  \/ Channel_basic_publish
       /\ UNCHANGED <<apiVars, sendVars, consVars, connVars, contVars, peerVars, callVars, capVars, regVars, innerVars, streamVars>>
  \/ \E tag \in 0..MaxTag, multiple \in BOOLEAN :
       receive_basic_ack(tag, multiple)
       /\ UNCHANGED <<apiVars, sendVars, consVars, connVars, contVars, peerVars, callVars, capVars, regVars, innerVars, streamVars>>
  \/ Peer_on_confirm_select_ok_received
       /\ UNCHANGED <<apiVars, chanVars, sendVars, consVars, connVars, contVars, callVars, capVars, regVars, innerVars, streamVars>>
  \/ Peer_before_basic_publish
       /\ UNCHANGED <<apiVars, chanVars, sendVars, consVars, connVars, contVars, callVars, capVars, regVars, innerVars, streamVars>>

(***************************************************************************)
(* src/channel.rs: sending a method with a body                            *)
(***************************************************************************)
\* the callers that send on the channel at the same time
Tasks == {"t1", "t2"}
Bytes == {0, 1}

\* a u32, kept as two 16-bit halves
u32(hi, lo) == [hi |-> hi, lo |-> lo]
u32_zero == u32(0, 0)
u32_lt(a, b) == a.hi < b.hi \/ (a.hi = b.hi /\ a.lo < b.lo)

\* u16::max_value(), u32::max_value()
u16_max_value == 65535
u32_max_value == u32(u16_max_value, u16_max_value)

FrameMaxValues == {u32(0, f) : f \in MinFrameMax..MaxFrameMax}
Payloads == UNION {[1..n -> Bytes] : n \in 0..MaxLen}

\* "a content body frame 8 bytes of overhead"
BodyFrameOverhead == 8

\* an outbound frame; publish numbers the body-bearing send it belongs to
\* (0 for a frame sent alone)
AMQPFrame(kind, publish, body_size, payload) ==
  [kind |-> kind, publish |-> publish, body_size |-> body_size,
   payload |-> payload]

Idle == [pc |-> "idle", payload |-> <<>>, frames |-> <<>>]

InitSend ==
  /\ channel_max = 0
  /\ frame_max = u32_zero
  /\ heartbeat = 0
  /\ frames = <<>>
  /\ tasks = [t \in Tasks |-> Idle]
  /\ sends = 0

\* tune_connection_configuration that takes the broker's heartbeat whenever
\* it is lower, a heartbeat of 0 included
tune_connection_configuration_lowest_heartbeat(server_channel_max, server_frame_max, server_heartbeat) ==
  /\ heartbeat' = IF heartbeat = 0 \/ server_heartbeat < heartbeat
                  THEN server_heartbeat ELSE heartbeat
  /\ LET negotiated ==
           IF server_channel_max # 0
              /\ (channel_max = 0 \/ server_channel_max < channel_max)
           THEN server_channel_max ELSE channel_max
     IN channel_max' = IF negotiated = 0 THEN u16_max_value ELSE negotiated
  /\ LET negotiated ==
           IF server_frame_max # u32_zero
              /\ (frame_max = u32_zero \/ u32_lt(server_frame_max, frame_max))
           THEN server_frame_max ELSE frame_max
     IN frame_max' = IF negotiated = u32_zero THEN u32_max_value ELSE negotiated

\* Channel::tune_connection_configuration
tune_connection_configuration(server_channel_max, server_frame_max, server_heartbeat) ==
  /\ heartbeat' = IF heartbeat = 0
                     \/ (server_heartbeat # 0 /\ server_heartbeat < heartbeat)
                  THEN server_heartbeat ELSE heartbeat
  /\ LET negotiated ==
           IF server_channel_max # 0
              /\ (channel_max = 0 \/ server_channel_max < channel_max)
           THEN server_channel_max ELSE channel_max
     IN channel_max' = IF negotiated = 0 THEN u16_max_value ELSE negotiated
  /\ LET negotiated ==
           IF server_frame_max # u32_zero
              /\ (frame_max = u32_zero \/ u32_lt(server_frame_max, frame_max))
           THEN server_frame_max ELSE frame_max
     IN frame_max' = IF negotiated = u32_zero THEN u32_max_value ELSE negotiated

\* frame_max as usize - 8, for a frame_max above 8.  A size of 2^16 or more
\* is larger than every payload of the model, and chunks gives the same
\* single chunk for any such size: it is given as 2^16
body_chunk_size(f) ==
  IF f.hi = 0 THEN f.lo - BodyFrameOverhead ELSE u16_max_value + 1

\* slice::chunks(chunk_size), for chunk_size > 0
RECURSIVE chunks(_, _)
chunks(payload, chunk_size) ==
  IF payload = <<>> THEN <<>>
  ELSE IF Len(payload) <= chunk_size THEN <<payload>>
  ELSE <<SubSeq(payload, 1, chunk_size)>>
         \o chunks(SubSeq(payload, chunk_size + 1, Len(payload)), chunk_size)

\* the frames vector of send_method_frame_with_body, given the body chunks
frames_vector(publish, payload, bodies) ==
  <<AMQPFrame("Method", publish, 0, <<>>),
    AMQPFrame("Header", publish, Len(payload), <<>>)>>
    \o [i \in 1..Len(bodies) |-> AMQPFrame("Body", publish, 0, bodies[i])]

\* Channel::send_method_frame_with_body, up to the frames vector.
\* frame_max as usize - 8 is 0 for frame_max = 8, and chunks(0) panics;
\* below 8 the subtraction overflows: a panic where overflow is checked,
\* else a chunk size near usize::MAX, which gives one chunk
send_method_frame_with_body(t, payload) ==
  /\ tasks[t].pc = "idle"
  /\ frame_max # u32_zero
  /\ sends < MaxSends
  /\ sends' = sends + 1
  /\ \/ /\ u32_lt(u32(0, BodyFrameOverhead), frame_max)
        /\ tasks' = [tasks EXCEPT ![t] =
             [pc |-> "built", payload |-> payload,
              frames |-> frames_vector(sends + 1, payload,
                           chunks(payload, body_chunk_size(frame_max)))]]
     \/ /\ ~u32_lt(u32(0, BodyFrameOverhead), frame_max)
        /\ tasks' = [tasks EXCEPT ![t] =
             [pc |-> "panicked", payload |-> payload, frames |-> <<>>]]
     \/ /\ u32_lt(frame_max, u32(0, BodyFrameOverhead))
        /\ tasks' = [tasks EXCEPT ![t] =
             [pc |-> "built", payload |-> payload,
              frames |-> frames_vector(sends + 1, payload,
                           IF payload = <<>> THEN <<>> ELSE <<payload>>)]]
  /\ UNCHANGED <<channel_max, frame_max, heartbeat, frames>>

\* Frames::push_frames: the batch is appended under the queue's lock
push_frames(queue, batch) == queue \o batch

\* Frames::push
push(queue, frame) == Append(queue, frame)

\* a send that pushes its frames one call at a time
send_frames_one_by_one(t) ==
  /\ tasks[t].pc = "built"
  /\ frames' = push(frames, Head(tasks[t].frames))
  /\ tasks' = [tasks EXCEPT ![t] =
       IF Len(tasks[t].frames) = 1 THEN Idle
       ELSE [@ EXCEPT !.frames = Tail(@)]]
  /\ UNCHANGED <<channel_max, frame_max, heartbeat, sends>>

\* Channel::send_method_frame_with_body, from self.frames.push_frames(frames)
send_frames(t) ==
  /\ tasks[t].pc = "built"
  /\ frames' = push_frames(frames, tasks[t].frames)
  /\ tasks' = [tasks EXCEPT ![t] = Idle]
  /\ UNCHANGED <<channel_max, frame_max, heartbeat, sends>>

\* Channel::send_frame, for a method without body
send_frame(t) ==
  /\ tasks[t].pc = "idle"
  /\ sends < MaxSends
  /\ sends' = sends + 1
  /\ frames' = push(frames, AMQPFrame("Method", 0, 0, <<>>))
  /\ UNCHANGED <<channel_max, frame_max, heartbeat, tasks>>

NextSend ==
  \/ \E f \in FrameMaxValues :
       /\ frame_max = u32_zero
       /\ tune_connection_configuration(0, f, 0)
       /\ UNCHANGED <<frames, tasks, sends>>
       /\ UNCHANGED <<apiVars, chanVars, consVars, connVars, contVars, peerVars, callVars, capVars, regVars, innerVars, streamVars>>
  \/ \E t \in Tasks, payload \in Payloads :
       send_method_frame_with_body(t, payload) /\ UNCHANGED <<apiVars, chanVars, consVars, connVars, contVars, peerVars, callVars, capVars, regVars, innerVars, streamVars>>
  \/ \E t \in Tasks : send_frames(t) /\ UNCHANGED <<apiVars, chanVars, consVars, connVars, contVars, peerVars, callVars, capVars, regVars, innerVars, streamVars>>
  \/ \E t \in Tasks : send_frame(t) /\ UNCHANGED <<apiVars, chanVars, consVars, connVars, contVars, peerVars, callVars, capVars, regVars, innerVars, streamVars>>

(***************************************************************************)
(* futures/src/consumer.rs: ConsumerSub and the Stream of a Consumer       *)
(***************************************************************************)
\* ConsumerInner::default, Consumer::new
InitConsumer ==
  /\ deliveries = <<>>
  /\ canceled = FALSE
  /\ task = FALSE
  /\ delivered = 0
  /\ yielded = <<>>
  /\ ended = FALSE
  /\ due = {}
  /\ polled = "None"

\* ConsumerSub::new_delivery
new_delivery ==
  /\ delivered < MaxDeliveries
  /\ delivered' = delivered + 1
  /\ deliveries' = Append(deliveries, delivered + 1)
  /\ UNCHANGED <<canceled, task, yielded, ended, due, polled>>

\* ConsumerSub::drop_prefetched_messages
drop_prefetched_messages ==
  /\ deliveries' = <<>>
  /\ UNCHANGED <<canceled, task, delivered, yielded, ended, due, polled>>

\* ConsumerSub::cancel
cancel ==
  /\ deliveries' = <<>>
  /\ canceled' = TRUE
  /\ due' = IF canceled THEN due
            ELSE {deliveries[i] : i \in DOMAIN deliveries}
  /\ UNCHANGED <<task, delivered, yielded, ended, polled>>

\* what transport.poll() gives to try_ready!
TransportPolls == {"Ready", "NotReady", "Err"}

\* Consumer::poll
poll(transport) ==
  /\ task' = TRUE
  /\ IF transport = "NotReady" THEN
       /\ polled' = "NotReady"
       /\ UNCHANGED <<deliveries, yielded, ended>>
     ELSE IF transport = "Err" THEN
       /\ polled' = "Err"
       /\ UNCHANGED <<deliveries, yielded, ended>>
     ELSE IF deliveries # <<>> THEN
       /\ deliveries' = Tail(deliveries)
       /\ yielded' = Append(yielded, Head(deliveries))
       /\ polled' = "Ready(Some)"
       /\ UNCHANGED ended
     ELSE IF canceled THEN
       /\ ended' = TRUE
       /\ polled' = "Ready(None)"
       /\ UNCHANGED <<deliveries, yielded>>
     ELSE
       /\ polled' = "NotReady"
       /\ UNCHANGED <<deliveries, yielded, ended>>
  /\ UNCHANGED <<canceled, delivered, due>>

NextConsumer ==
  \/ new_delivery /\ UNCHANGED <<apiVars, chanVars, sendVars, connVars, contVars, peerVars, callVars, capVars, regVars, innerVars, streamVars>>
  \/ drop_prefetched_messages /\ UNCHANGED <<apiVars, chanVars, sendVars, connVars, contVars, peerVars, callVars, capVars, regVars, innerVars, streamVars>>
  \/ cancel /\ UNCHANGED <<apiVars, chanVars, sendVars, connVars, contVars, peerVars, callVars, capVars, regVars, innerVars, streamVars>>
  \/ \E transport \in TransportPolls :
       poll(transport) /\ UNCHANGED <<apiVars, chanVars, sendVars, connVars, contVars, peerVars, callVars, capVars, regVars, innerVars, streamVars>>

(***************************************************************************)
(* src/channel.rs: the connection handshake and its closing, as the        *)
(* Connection methods received on a channel drive them                     *)
(***************************************************************************)
\* the channels a Connection method is received on: channel 0 and a channel
\* of the application
ConnChannelIds == {0, 1}

\* the u16 values of channel_max and heartbeat, and the values of frame_max
U16Values == {0, 1, 2}
U32Values == {u32_zero, u32(0, MaxFrameMax - 1), u32(0, MaxFrameMax)}

\* reply codes of a received Connection.Close: 200 (REPLY-SUCCESS), which
\* is no AMQPError, and 530 (NOT-ALLOWED), a hard error
ReplyCodes == {200, 530}

\* results and errors
Ok == <<"Ok">>
Unresolved == <<"Pending">>
ProtocolError(error) == <<"ProtocolError", error>>
InvalidConnectionState(state) == <<"InvalidConnectionState", state>>

\* AMQPHardError::COMMANDINVALID, UNEXPECTEDFRAME, FRAMEERROR
COMMANDINVALID == "COMMAND_INVALID"
UNEXPECTEDFRAME == "UNEXPECTED_FRAME"
FRAMEERROR == "FRAME_ERROR"

\* AMQPError::try_from(method) of a received Close
AMQPError_try_from(reply_code) ==
  IF reply_code = 530 THEN <<"Ok", "NOT_ALLOWED">> ELSE <<"Err">>

\* a work item of internal_rpc
Work(call, error) == [call |-> call, error |-> error]

\* InternalRPCHandle::register_internal_future and the commands
\* set_connection_closing / _closed / _error, close_connection,
\* send_connection_close_ok: the item joins the queue of the driver
internal_rpc_send(queue, call, error) == Append(queue, Work(call, error))

\* Frames::drop_pending: every resolver still pending fails with the error
drop_pending(error) ==
  [i \in DOMAIN pending |->
     IF pending[i] = Unresolved THEN error ELSE pending[i]]

\* PromiseResolver::swear on the connection-open promise
swear(promise, resolution) == Append(promise, resolution)

\* ConnectionStatus::connection_resolver: the resolver of the
\* connection-open promise, while a connection is being opened and the
\* promise is unresolved
connection_resolver ==
  connection_status.state # "Initial" /\ connection_promise = <<>>

\* ConnectionStatus::default, Frames::default
InitConnection ==
  /\ connection_status = [state |-> "Initial", connection_step |-> "None"]
  /\ connection_promise = <<>>
  /\ rpc_queue = <<>>
  /\ wire = <<>>
  /\ pending = <<>>
  /\ conn_result = Ok
  /\ steps = <<>>

\* ConnectionStatus::set_connection_step
set_connection_step(cs, step) == [cs EXCEPT !.connection_step = step]

\* ConnectionStatus::connection_step: the step is handed to the caller
take_connection_step(cs) == [cs EXCEPT !.connection_step = "None"]

\* Configuration::set_channel_max, set_frame_max, set_heartbeat, as the
\* application calls them before it connects
Configuration_set_channel_max(value) ==
  /\ connection_status.state = "Initial"
  /\ channel_max' = value
  /\ UNCHANGED <<frame_max, heartbeat>>

Configuration_set_frame_max(value) ==
  /\ connection_status.state = "Initial"
  /\ frame_max' = value
  /\ UNCHANGED <<channel_max, heartbeat>>

Configuration_set_heartbeat(value) ==
  /\ connection_status.state = "Initial"
  /\ heartbeat' = value
  /\ UNCHANGED <<channel_max, frame_max>>

\* Connection::connect: the protocol header is sent, the connection is
\* Connecting with step ProtocolHeader
Connection_connect ==
  /\ connection_status.state = "Initial"
  /\ connection_status' = [state |-> "Connecting",
                           connection_step |-> "ProtocolHeader"]
  /\ steps' = Append(steps, "ProtocolHeader")
  /\ conn_result' = Ok
  /\ UNCHANGED <<connection_promise, rpc_queue, wire, pending>>

\* Frames::push: a frame of the application waits for the writer
Frames_push ==
  /\ connection_status.state \in {"Connecting", "Connected"}
  /\ Len(pending) < MaxPending
  /\ pending' = Append(pending, Unresolved)
  /\ UNCHANGED <<connection_status, connection_promise, rpc_queue, wire,
                 conn_result, steps>>

\* assert_channel0 that lets every channel through
assert_channel0_any_channel(id, method) ==
  [result |-> Ok, requests |-> <<>>]

\* Channel::assert_channel0: what it returns and what it hands to
\* internal_rpc
assert_channel0(id, method) ==
  IF id = 0
  THEN [result |-> Ok, requests |-> <<>>]
  ELSE [result |-> ProtocolError(COMMANDINVALID),
        requests |-> <<Work("close_connection", ProtocolError(COMMANDINVALID))>>]

\* the generated receive_connection_* stops when assert_channel0 fails
channel0_refused(assert) ==
  /\ Len(rpc_queue) < MaxRpc
  /\ rpc_queue' = rpc_queue \o assert.requests
  /\ conn_result' = assert.result
  /\ UNCHANGED <<connection_status, connection_promise, wire, pending, steps,
                 channel_max, frame_max, heartbeat>>

\* the else branch of the handshake handlers: InvalidConnectionState(state)
invalid_connection_state ==
  LET error == InvalidConnectionState(connection_status.state) IN
  /\ Len(rpc_queue) < MaxRpc
  /\ connection_status' = take_connection_step(connection_status)
  /\ rpc_queue' = internal_rpc_send(rpc_queue, "set_connection_error", error)
  /\ conn_result' = error
  /\ UNCHANGED <<connection_promise, wire, pending, steps,
                 channel_max, frame_max, heartbeat>>

\* the handshake handler finds the connection Connecting at the given step
at_step(step) ==
  /\ connection_status.state = "Connecting"
  /\ connection_status.connection_step = step

\* Channel::on_connection_start_received
on_connection_start_received ==
  IF at_step("ProtocolHeader") THEN
    /\ Len(rpc_queue) < MaxRpc
    /\ connection_status' = take_connection_step(connection_status)
    /\ rpc_queue' = internal_rpc_send(rpc_queue, "connection_start_ok", Ok)
    /\ conn_result' = Ok
    /\ UNCHANGED <<connection_promise, wire, pending, steps,
                   channel_max, frame_max, heartbeat>>
  ELSE invalid_connection_state

\* Channel::on_connection_secure_received
on_connection_secure_received ==
  IF at_step("StartOk") THEN
    /\ Len(rpc_queue) < MaxRpc
    /\ connection_status' = take_connection_step(connection_status)
    /\ rpc_queue' = internal_rpc_send(rpc_queue, "connection_secure_ok", Ok)
    /\ conn_result' = Ok
    /\ UNCHANGED <<connection_promise, wire, pending, steps,
                   channel_max, frame_max, heartbeat>>
  ELSE invalid_connection_state

\* Channel::on_connection_tune_received
on_connection_tune_received(server_channel_max, server_frame_max, server_heartbeat) ==
  IF at_step("StartOk") THEN
    /\ Len(rpc_queue) + 1 < MaxRpc
    /\ tune_connection_configuration(server_channel_max, server_frame_max,
                                     server_heartbeat)
    /\ connection_status' = take_connection_step(connection_status)
    /\ rpc_queue' = internal_rpc_send(
                      internal_rpc_send(rpc_queue, "connection_tune_ok", Ok),
                      "connection_open", Ok)
    /\ conn_result' = Ok
    /\ UNCHANGED <<connection_promise, wire, pending, steps>>
  ELSE invalid_connection_state

\* on_connection_open_ok_received that takes a Connection.OpenOk at any step
on_connection_open_ok_received_any_step ==
  IF connection_status.state = "Connecting" THEN
    /\ connection_status' =
         [take_connection_step(connection_status) EXCEPT !.state = "Connected"]
    /\ connection_promise' = swear(connection_promise, <<"Ok", "connection">>)
    /\ conn_result' = Ok
    /\ UNCHANGED <<rpc_queue, wire, pending, steps,
                   channel_max, frame_max, heartbeat>>
  ELSE invalid_connection_state

\* Channel::on_connection_open_ok_received
on_connection_open_ok_received ==
  IF at_step("Open") THEN
    /\ connection_status' =
         [take_connection_step(connection_status) EXCEPT !.state = "Connected"]
    /\ connection_promise' = swear(connection_promise, <<"Ok", "connection">>)
    /\ conn_result' = Ok
    /\ UNCHANGED <<rpc_queue, wire, pending, steps,
                   channel_max, frame_max, heartbeat>>
  ELSE invalid_connection_state

\* the error a received Connection.Close reports
close_error(reply_code) ==
  IF AMQPError_try_from(reply_code)[1] = "Ok"
  THEN ProtocolError(AMQPError_try_from(reply_code)[2])
  ELSE InvalidConnectionState("Closed")

\* on_connection_close_received that leaves the queued frames pending
on_connection_close_received_keeps_pending(reply_code) ==
  LET error == close_error(reply_code) IN
  /\ Len(rpc_queue) + 1 < MaxRpc
  /\ pending' = pending
  /\ connection_promise' = IF connection_resolver
                           THEN swear(connection_promise, error)
                           ELSE connection_promise
  /\ connection_status' = IF connection_resolver
                          THEN take_connection_step(connection_status)
                          ELSE connection_status
  /\ rpc_queue' = internal_rpc_send(
                    internal_rpc_send(rpc_queue, "set_connection_closing", Ok),
                    "send_connection_close_ok", error)
  /\ conn_result' = Ok
  /\ UNCHANGED <<wire, steps, channel_max, frame_max, heartbeat>>

\* Channel::on_connection_close_received
on_connection_close_received(reply_code) ==
  LET error == close_error(reply_code) IN
  /\ Len(rpc_queue) + 1 < MaxRpc
  /\ pending' = drop_pending(error)
  /\ connection_promise' = IF connection_resolver
                           THEN swear(connection_promise, error)
                           ELSE connection_promise
  /\ connection_status' = IF connection_resolver
                          THEN take_connection_step(connection_status)
                          ELSE connection_status
  /\ rpc_queue' = internal_rpc_send(
                    internal_rpc_send(rpc_queue, "set_connection_closing", Ok),
                    "send_connection_close_ok", error)
  /\ conn_result' = Ok
  /\ UNCHANGED <<wire, steps, channel_max, frame_max, heartbeat>>

\* Channel::on_connection_close_ok_received
on_connection_close_ok_received ==
  /\ Len(rpc_queue) < MaxRpc
  /\ rpc_queue' = internal_rpc_send(rpc_queue, "set_connection_closed",
                                    InvalidConnectionState("Closed"))
  /\ conn_result' = Ok
  /\ UNCHANGED <<connection_status, connection_promise, wire, pending, steps,
                 channel_max, frame_max, heartbeat>>

\* Channel::on_connection_close_sent: the queue with what it adds
on_connection_close_sent(queue) ==
  internal_rpc_send(queue, "set_connection_closing", Ok)

\* Channel::on_connection_close_ok_sent: the queue with what it adds
on_connection_close_ok_sent(queue, error) ==
  IF error[1] = "ProtocolError"
  THEN internal_rpc_send(queue, "set_connection_error", error)
  ELSE internal_rpc_send(queue, "set_connection_closed", error)

\* Channel::on_connection_start_ok_sent, on_connection_open_sent
on_connection_start_ok_sent(cs) == set_connection_step(cs, "StartOk")
on_connection_open_sent(cs) == set_connection_step(cs, "Open")

\* the generated receive_connection_*: assert_channel0, then the handler
receive_connection_start(id) ==
  IF assert_channel0(id, "Connection.Start").result = Ok
  THEN on_connection_start_received
  ELSE channel0_refused(assert_channel0(id, "Connection.Start"))

receive_connection_secure(id) ==
  IF assert_channel0(id, "Connection.Secure").result = Ok
  THEN on_connection_secure_received
  ELSE channel0_refused(assert_channel0(id, "Connection.Secure"))

receive_connection_tune(id, server_channel_max, server_frame_max, server_heartbeat) ==
  IF assert_channel0(id, "Connection.Tune").result = Ok
  THEN on_connection_tune_received(server_channel_max, server_frame_max,
                                   server_heartbeat)
  ELSE channel0_refused(assert_channel0(id, "Connection.Tune"))

receive_connection_open_ok(id) ==
  IF assert_channel0(id, "Connection.OpenOk").result = Ok
  THEN on_connection_open_ok_received
  ELSE channel0_refused(assert_channel0(id, "Connection.OpenOk"))

receive_connection_close(id, reply_code) ==
  IF assert_channel0(id, "Connection.Close").result = Ok
  THEN on_connection_close_received(reply_code)
  ELSE channel0_refused(assert_channel0(id, "Connection.Close"))

receive_connection_close_ok(id) ==
  IF assert_channel0(id, "Connection.CloseOk").result = Ok
  THEN on_connection_close_ok_received
  ELSE channel0_refused(assert_channel0(id, "Connection.CloseOk"))

\* the generated connection_* send the method on channel 0
send_connection_method(method) ==
  /\ Len(wire) < MaxWire
  /\ wire' = Append(wire, method)

\* the driver of internal_rpc runs the oldest work item
run_internal_rpc ==
  /\ rpc_queue # <<>>
  /\ LET item == Head(rpc_queue)
         rest == Tail(rpc_queue)
     IN
     CASE item.call = "connection_start_ok" ->
            /\ send_connection_method("Connection.StartOk")
            /\ connection_status' = on_connection_start_ok_sent(connection_status)
            /\ steps' = Append(steps, "StartOk")
            /\ rpc_queue' = rest
            /\ UNCHANGED pending
       [] item.call = "connection_secure_ok" ->
            /\ send_connection_method("Connection.SecureOk")
            /\ rpc_queue' = rest
            /\ UNCHANGED <<connection_status, steps, pending>>
       [] item.call = "connection_tune_ok" ->
            /\ send_connection_method("Connection.TuneOk")
            /\ rpc_queue' = rest
            /\ UNCHANGED <<connection_status, steps, pending>>
       [] item.call = "connection_open" ->
            /\ send_connection_method("Connection.Open")
            /\ connection_status' = on_connection_open_sent(connection_status)
            /\ steps' = Append(steps, "Open")
            /\ rpc_queue' = rest
            /\ UNCHANGED pending
       [] item.call = "close_connection" ->
            /\ send_connection_method("Connection.Close")
            /\ rpc_queue' = on_connection_close_sent(rest)
            /\ UNCHANGED <<connection_status, steps, pending>>
       [] item.call = "send_connection_close_ok" ->
            /\ send_connection_method("Connection.CloseOk")
            /\ rpc_queue' = on_connection_close_ok_sent(rest, item.error)
            /\ UNCHANGED <<connection_status, steps, pending>>
       [] item.call = "set_connection_closing" ->
            /\ connection_status' = [connection_status EXCEPT !.state = "Closing"]
            /\ rpc_queue' = rest
            /\ UNCHANGED <<wire, steps, pending>>
       [] item.call = "set_connection_closed" ->
            /\ connection_status' = [connection_status EXCEPT !.state = "Closed"]
            /\ pending' = drop_pending(item.error)
            /\ rpc_queue' = rest
            /\ UNCHANGED <<wire, steps>>
       [] item.call = "set_connection_error" ->
            /\ connection_status' = [connection_status EXCEPT !.state = "Error"]
            /\ pending' = drop_pending(item.error)
            /\ rpc_queue' = rest
            /\ UNCHANGED <<wire, steps>>
  /\ conn_result' = conn_result
  /\ UNCHANGED <<connection_promise, channel_max, frame_max, heartbeat>>

\* Connection::close: Connection.Close is sent on channel 0
Connection_close ==
  /\ connection_status.state = "Connected"
  /\ send_connection_method("Connection.Close")
  /\ rpc_queue' = on_connection_close_sent(rpc_queue)
  /\ conn_result' = Ok
  /\ UNCHANGED <<connection_status, connection_promise, pending, steps,
                 channel_max, frame_max, heartbeat>>

\* the configuration of the client and its negotiation with the broker's
\* Connection.Tune, on channel 0
NextTune ==
  \/ \E value \in U16Values :
       /\ Configuration_set_channel_max(value)
       /\ UNCHANGED <<apiVars, chanVars, consVars, connVars, frames, tasks, sends, contVars, peerVars, callVars, capVars, regVars, innerVars, streamVars>>
  \/ \E value \in U32Values :
       /\ Configuration_set_frame_max(value)
       /\ UNCHANGED <<apiVars, chanVars, consVars, connVars, frames, tasks, sends, contVars, peerVars, callVars, capVars, regVars, innerVars, streamVars>>
  \/ \E value \in U16Values :
       /\ Configuration_set_heartbeat(value)
       /\ UNCHANGED <<apiVars, chanVars, consVars, connVars, frames, tasks, sends, contVars, peerVars, callVars, capVars, regVars, innerVars, streamVars>>
  \/ Connection_connect /\ UNCHANGED <<apiVars, chanVars, sendVars, consVars, contVars, peerVars, callVars, capVars, regVars, innerVars, streamVars>>
  \/ receive_connection_start(0)
       /\ UNCHANGED <<apiVars, chanVars, consVars, frames, tasks, sends, contVars, peerVars, callVars, capVars, regVars, innerVars, streamVars>>
  \/ \E server_channel_max \in U16Values, server_frame_max \in U32Values,
        server_heartbeat \in U16Values :
       /\ receive_connection_tune(0, server_channel_max, server_frame_max,
                                  server_heartbeat)
       /\ UNCHANGED <<apiVars, chanVars, consVars, frames, tasks, sends, contVars, peerVars, callVars, capVars, regVars, innerVars, streamVars>>
  \/ run_internal_rpc
       /\ UNCHANGED <<apiVars, chanVars, consVars, frames, tasks, sends, contVars, peerVars, callVars, capVars, regVars, innerVars, streamVars>>

\* what the broker proposes in the Connection.Tune of NextConnection
ServerTunes == {<<0, u32_zero, 0>>, <<2, u32(0, MaxFrameMax), 1>>}

NextConnection ==
  \/ Connection_connect /\ UNCHANGED <<apiVars, chanVars, sendVars, consVars, contVars, peerVars, callVars, capVars, regVars, innerVars, streamVars>>
  \/ Frames_push /\ UNCHANGED <<apiVars, chanVars, sendVars, consVars, contVars, peerVars, callVars, capVars, regVars, innerVars, streamVars>>
  \/ \E id \in ConnChannelIds :
       /\ receive_connection_start(id)
       /\ UNCHANGED <<apiVars, chanVars, consVars, frames, tasks, sends, contVars, peerVars, callVars, capVars, regVars, innerVars, streamVars>>
  \/ \E id \in ConnChannelIds :
       /\ receive_connection_secure(id)
       /\ UNCHANGED <<apiVars, chanVars, consVars, frames, tasks, sends, contVars, peerVars, callVars, capVars, regVars, innerVars, streamVars>>
  \/ \E id \in ConnChannelIds, tune \in ServerTunes :
       /\ receive_connection_tune(id, tune[1], tune[2], tune[3])
       /\ UNCHANGED <<apiVars, chanVars, consVars, frames, tasks, sends, contVars, peerVars, callVars, capVars, regVars, innerVars, streamVars>>
  \/ \E id \in ConnChannelIds :
       /\ receive_connection_open_ok(id)
       /\ UNCHANGED <<apiVars, chanVars, consVars, frames, tasks, sends, contVars, peerVars, callVars, capVars, regVars, innerVars, streamVars>>
  \/ \E id \in ConnChannelIds, reply_code \in ReplyCodes :
       /\ receive_connection_close(id, reply_code)
       /\ UNCHANGED <<apiVars, chanVars, consVars, frames, tasks, sends, contVars, peerVars, callVars, capVars, regVars, innerVars, streamVars>>
  \/ \E id \in ConnChannelIds :
       /\ receive_connection_close_ok(id)
       /\ UNCHANGED <<apiVars, chanVars, consVars, frames, tasks, sends, contVars, peerVars, callVars, capVars, regVars, innerVars, streamVars>>
  \/ run_internal_rpc
       /\ UNCHANGED <<apiVars, chanVars, consVars, frames, tasks, sends, contVars, peerVars, callVars, capVars, regVars, innerVars, streamVars>>
  \/ Connection_close
       /\ UNCHANGED <<apiVars, chanVars, consVars, frames, tasks, sends, contVars, peerVars, callVars, capVars, regVars, innerVars, streamVars>>

(***************************************************************************)
(* Content assembly of a channel: Basic.Deliver, Basic.GetOk and           *)
(* Basic.Return start a delivery, the content header and the body frames   *)
(* complete it (src/channel.rs)                                            *)
(***************************************************************************)
\* Option<T>: None, Some(value)
None == <<>>
Some(value) == <<value>>

\* the class of the methods that carry a content, and another class
ClassIds == {"basic", "queue"}
\* the consumer registered on the queue, and a tag no consumer has
ContentConsumerTags == {"ctag", "unknown"}
\* the sizes a content header announces, the lengths of a body frame
BodySizes == 0..MaxSize
PayloadLengths == 1..(MaxSize + 1)

\* ChannelStatus::default, Queues, ReturnedMessages::default
InitContent ==
  /\ channel_status = [state |-> "Connected", queue_name |-> None,
                       request_id_or_consumer_tag |-> None, remaining |-> 0,
                       confirm |-> FALSE]
  /\ current_message = [consumer |-> None, get |-> None, returned |-> None]
  /\ consumer_ready = <<>>
  /\ get_promise = <<>>
  /\ returned_messages = [waiting_messages |-> <<>>, messages |-> <<>>]
  /\ content_result = Ok
  /\ started = 0

\* Delivery::new, BasicGetMessage::new, BasicReturnMessage::new: a message
\* with no properties and an empty body yet
new_message(method) ==
  [id |-> started + 1, method |-> method, properties |-> FALSE, data |-> <<>>]

\* ChannelStatus::set_will_receive
set_will_receive(cs, queue_name, request_id_or_consumer_tag) ==
  [cs EXCEPT !.state = "WillReceiveContent",
             !.queue_name = queue_name,
             !.request_id_or_consumer_tag = request_id_or_consumer_tag,
             !.remaining = 0]

\* ChannelStatus: the channel is back to Connected, the cursor is gone
content_received(cs) ==
  [cs EXCEPT !.state = "Connected", !.queue_name = None,
             !.request_id_or_consumer_tag = None, !.remaining = 0]

\* ChannelStatus::can_receive_messages, as the generated receive_basic_*
\* check it before they call the handler
can_receive_messages == channel_status.state = "Connected"

\* Channel::on_confirm_select_ok_received (ChannelStatus::set_confirm)
content_set_confirm ==
  /\ can_receive_messages
  /\ ~channel_status.confirm
  /\ channel_status' = [channel_status EXCEPT !.confirm = TRUE]
  /\ content_result' = Ok
  /\ UNCHANGED <<current_message, consumer_ready, get_promise,
                 returned_messages, started, rpc_queue>>

\* Channel::on_basic_deliver_received
on_basic_deliver_received(consumer_tag) ==
  /\ can_receive_messages
  /\ started < MaxContents
  /\ IF consumer_tag = "ctag"   \* Queues::start_consumer_delivery is Some
     THEN /\ current_message' =
               [current_message EXCEPT !.consumer = Some(new_message("Basic.Deliver"))]
          /\ channel_status' =
               set_will_receive(channel_status, Some("queue"), Some(consumer_tag))
     ELSE UNCHANGED <<current_message, channel_status>>
  /\ started' = started + 1
  /\ content_result' = Ok
  /\ UNCHANGED <<consumer_ready, get_promise, returned_messages, rpc_queue>>

\* Channel::on_basic_get_ok_received
on_basic_get_ok_received ==
  /\ can_receive_messages
  /\ started < MaxContents
  /\ current_message' =
       [current_message EXCEPT !.get = Some(new_message("Basic.GetOk"))]
  /\ channel_status' = set_will_receive(channel_status, Some("queue"), None)
  /\ started' = started + 1
  /\ content_result' = Ok
  /\ UNCHANGED <<consumer_ready, get_promise, returned_messages, rpc_queue>>

\* Channel::on_basic_return_received
on_basic_return_received ==
  /\ can_receive_messages
  /\ started < MaxContents
  /\ current_message' =
       [current_message EXCEPT !.returned = Some(new_message("Basic.Return"))]
  /\ channel_status' = set_will_receive(channel_status, None, None)
  /\ started' = started + 1
  /\ content_result' = Ok
  /\ UNCHANGED <<consumer_ready, get_promise, returned_messages, rpc_queue>>

\* the partial message with the properties set / with the payload appended
set_delivery_properties(message) ==
  [i \in DOMAIN message |-> [message[i] EXCEPT !.properties = TRUE]]
receive_delivery_content(message, payload) ==
  [i \in DOMAIN message |-> [message[i] EXCEPT !.data = Append(@, payload)]]

\* the partial messages once the header or the body frame is applied
with_properties ==
  [kind \in DOMAIN current_message |->
     set_delivery_properties(current_message[kind])]
with_content(payload) ==
  [kind \in DOMAIN current_message |->
     receive_delivery_content(current_message[kind], payload)]

\* Queues::handle_content_header_frame / handle_body_frame and the
\* ReturnedMessages branch of the two handlers: the partial message the
\* cursor names is updated, and handed over when nothing remains
\*   consumer: Consumer::new_delivery_complete (the ready queue)
\*   queue:    Queue::new_delivery_complete (the Basic.Get resolver)
\*   neither:  ReturnedMessages::new_delivery_complete(confirm_mode)
deliver_content(queue_name, tag, updated, remaining_size, confirm_mode) ==
  IF queue_name # None THEN
    IF tag # None THEN
      /\ current_message' =
           [current_message EXCEPT
              !.consumer = IF remaining_size = 0 THEN None ELSE updated.consumer]
      /\ consumer_ready' =
           IF remaining_size = 0
           THEN consumer_ready \o updated.consumer
           ELSE consumer_ready
      /\ UNCHANGED <<get_promise, returned_messages>>
    ELSE
      /\ current_message' =
           [current_message EXCEPT
              !.get = IF remaining_size = 0 THEN None ELSE updated.get]
      /\ get_promise' =
           IF remaining_size = 0
           THEN get_promise \o updated.get
           ELSE get_promise
      /\ UNCHANGED <<consumer_ready, returned_messages>>
  ELSE
    /\ current_message' =
         [current_message EXCEPT
            !.returned = IF remaining_size = 0 THEN None ELSE updated.returned]
    /\ returned_messages' =
         IF remaining_size # 0 THEN returned_messages
         ELSE IF confirm_mode
         THEN [returned_messages EXCEPT
                 !.waiting_messages = @ \o updated.returned]
         ELSE [returned_messages EXCEPT
                 !.messages = @ \o updated.returned]
    /\ UNCHANGED <<consumer_ready, get_promise>>

\* Channel::handle_invalid_contents
handle_invalid_contents ==
  /\ Len(rpc_queue) < MaxRpc
  /\ rpc_queue' = internal_rpc_send(rpc_queue, "close_connection",
                                    ProtocolError(UNEXPECTEDFRAME))
  /\ content_result' = ProtocolError(UNEXPECTEDFRAME)
  /\ UNCHANGED <<channel_status, current_message, consumer_ready, get_promise,
                 returned_messages, started>>

\* Channel::handle_content_header_frame (with ChannelStatus::set_content_length)
handle_content_header_frame(class_id, size) ==
  IF channel_status.state = "WillReceiveContent" THEN
    IF class_id = "basic" THEN
      /\ channel_status' =
           IF size > 0
           THEN [channel_status EXCEPT !.state = "ReceivingContent",
                                       !.remaining = size]
           ELSE content_received(channel_status)
      /\ deliver_content(channel_status.queue_name,
                         channel_status.request_id_or_consumer_tag,
                         with_properties, size, channel_status.confirm)
      /\ content_result' = Ok
      /\ UNCHANGED <<started, rpc_queue>>
    ELSE
      /\ Len(rpc_queue) < MaxRpc
      /\ rpc_queue' = internal_rpc_send(rpc_queue, "close_connection",
                                        ProtocolError(FRAMEERROR))
      /\ channel_status' = [channel_status EXCEPT !.state = "Error"]
      /\ content_result' = ProtocolError(FRAMEERROR)
      /\ UNCHANGED <<current_message, consumer_ready, get_promise,
                     returned_messages, started>>
  ELSE handle_invalid_contents

\* handle_body_frame that hands a completed delivery over twice
handle_body_frame_routes_twice(payload) ==
  IF /\ channel_status.state = "ReceivingContent"
     /\ payload <= channel_status.remaining
  THEN
    LET remaining_size == channel_status.remaining - payload
        appended ==
          IF remaining_size = 0
          THEN [kind \in DOMAIN current_message |->
                  with_content(payload)[kind] \o with_content(payload)[kind]]
          ELSE with_content(payload) IN
    /\ channel_status' =
         IF remaining_size > 0
         THEN [channel_status EXCEPT !.remaining = remaining_size]
         ELSE content_received(channel_status)
    /\ deliver_content(channel_status.queue_name,
                       channel_status.request_id_or_consumer_tag,
                       appended, remaining_size, channel_status.confirm)
    /\ content_result' = Ok
    /\ UNCHANGED <<started, rpc_queue>>
  ELSE handle_invalid_contents

\* Channel::handle_body_frame (with ChannelStatus::receive)
handle_body_frame(payload) ==
  IF /\ channel_status.state = "ReceivingContent"
     /\ payload <= channel_status.remaining
  THEN
    LET remaining_size == channel_status.remaining - payload
        appended == with_content(payload) IN
    /\ channel_status' =
         IF remaining_size > 0
         THEN [channel_status EXCEPT !.remaining = remaining_size]
         ELSE content_received(channel_status)
    /\ deliver_content(channel_status.queue_name,
                       channel_status.request_id_or_consumer_tag,
                       appended, remaining_size, channel_status.confirm)
    /\ content_result' = Ok
    /\ UNCHANGED <<started, rpc_queue>>
  ELSE handle_invalid_contents

\* the frames of the broker that concern the content of a channel
NextContent ==
  \/ content_set_confirm
       /\ UNCHANGED <<apiVars, chanVars, sendVars, consVars, connection_status,
                      connection_promise, wire, pending, conn_result, steps, peerVars, callVars, capVars, regVars, innerVars, streamVars>>
  \/ \E consumer_tag \in ContentConsumerTags :
       on_basic_deliver_received(consumer_tag)
       /\ UNCHANGED <<apiVars, chanVars, sendVars, consVars, connection_status,
                      connection_promise, wire, pending, conn_result, steps, peerVars, callVars, capVars, regVars, innerVars, streamVars>>
  \/ on_basic_get_ok_received
       /\ UNCHANGED <<apiVars, chanVars, sendVars, consVars, connection_status,
                      connection_promise, wire, pending, conn_result, steps, peerVars, callVars, capVars, regVars, innerVars, streamVars>>
  \/ on_basic_return_received
       /\ UNCHANGED <<apiVars, chanVars, sendVars, consVars, connection_status,
                      connection_promise, wire, pending, conn_result, steps, peerVars, callVars, capVars, regVars, innerVars, streamVars>>
  \/ \E class_id \in ClassIds, size \in BodySizes :
       handle_content_header_frame(class_id, size)
       /\ UNCHANGED <<apiVars, chanVars, sendVars, consVars, connection_status,
                      connection_promise, wire, pending, conn_result, steps, peerVars, callVars, capVars, regVars, innerVars, streamVars>>
  \/ \E payload \in PayloadLengths :
       handle_body_frame(payload)
       /\ UNCHANGED <<apiVars, chanVars, sendVars, consVars, connection_status,
                      connection_promise, wire, pending, conn_result, steps, peerVars, callVars, capVars, regVars, innerVars, streamVars>>

(***************************************************************************)
(* A basic_publish call of a user task, from the call to its result: the   *)
(* frames are pushed with a promise, the writer resolves it when it has    *)
(* flushed them, and only then send_method_frame_with_body returns         *)
(***************************************************************************)
\* what a call resolves to
NotRequested == <<"NotRequested">>
PublisherConfirm(tag) == <<"PublisherConfirm", tag>>
Err(error) == <<"Err", error>>

\* the error Frames::drop_pending fails the resolvers with
FramesErrors == {InvalidConnectionState("Closed")}

NoCall == [pc |-> "idle", publisher_confirms_result |-> None,
           promise |-> Unresolved, confirmation |-> None]

InitCall ==
  /\ publish_call = NoCall
  /\ waiter = [pc |-> "idle", tag |-> 0, error |-> "", returned |-> <<>>]

\* Channel::basic_publish up to `promise.await`: the state check,
\* before_basic_publish, then the frames pushed with their promise
basic_publish_call ==
  /\ publish_call.pc \in {"idle", "returned"}
  /\ Channel_basic_publish
  /\ publish_call' =
       IF ~status_connected
       THEN [NoCall EXCEPT !.pc = "returned",
                           !.confirmation = Some(Err(<<"InvalidChannelState">>))]
       ELSE [NoCall EXCEPT !.pc = "awaiting",
                           !.publisher_confirms_result =
                              IF status.confirm THEN Some(delivery_tag + 1)
                              ELSE None]
  /\ UNCHANGED waiter

\* the writer has flushed the frames of the call: their resolver goes to
\* the send-complete state
write_frames ==
  /\ publish_call.pc = "awaiting"
  /\ publish_call.promise = Unresolved
  /\ publish_call' = [publish_call EXCEPT !.promise = Ok]
  /\ UNCHANGED waiter

\* Frames::drop_pending: the resolver of the call fails
Frames_drop_pending(error) ==
  /\ publish_call.pc = "awaiting"
  /\ publish_call.promise = Unresolved
  /\ publish_call' = [publish_call EXCEPT !.promise = Err(error)]
  /\ UNCHANGED waiter

\* send_method_frame_with_body that returns without awaiting the promise
send_method_frame_with_body_resume_unflushed ==
  /\ publish_call.pc = "awaiting"
  /\ publish_call' =
       [publish_call EXCEPT
          !.pc = "returned",
          !.confirmation =
             IF publish_call.publisher_confirms_result = None
             THEN Some(NotRequested)
             ELSE Some(PublisherConfirm(publish_call.publisher_confirms_result[1]))]
  /\ UNCHANGED waiter

\* send_method_frame_with_body after `promise.await?`: the error of the
\* promise, else publisher_confirms_result or PublisherConfirm::not_requested
send_method_frame_with_body_resume ==
  /\ publish_call.pc = "awaiting"
  /\ publish_call.promise # Unresolved
  /\ publish_call' =
       [publish_call EXCEPT
          !.pc = "returned",
          !.confirmation =
             IF publish_call.promise # Ok THEN Some(publish_call.promise)
             ELSE IF publish_call.publisher_confirms_result = None
             THEN Some(NotRequested)
             ELSE Some(PublisherConfirm(publish_call.publisher_confirms_result[1]))]
  /\ UNCHANGED waiter

\* a user task that publishes, with the channel and the writer around it
NextPublish ==
  \/ on_channel_open_ok_received
       /\ UNCHANGED <<apiVars, sendVars, consVars, connVars, contVars, peerVars, callVars, capVars, regVars, innerVars, streamVars>>
  \/ on_confirm_select_ok_received
       /\ UNCHANGED <<apiVars, sendVars, consVars, connVars, contVars, peerVars, callVars, capVars, regVars, innerVars, streamVars>>
  \/ basic_publish_call
       /\ UNCHANGED <<apiVars, sendVars, consVars, connVars, contVars, peerVars, capVars, regVars, innerVars, streamVars>>
  \/ write_frames
       /\ UNCHANGED <<apiVars, chanVars, sendVars, consVars, connVars, contVars, peerVars, capVars, regVars, innerVars, streamVars>>
  \/ \E error \in FramesErrors :
       Frames_drop_pending(error)
       /\ UNCHANGED <<apiVars, chanVars, sendVars, consVars, connVars, contVars, peerVars, capVars, regVars, innerVars, streamVars>>
  \/ send_method_frame_with_body_resume
       /\ UNCHANGED <<apiVars, chanVars, sendVars, consVars, connVars, contVars, peerVars, capVars, regVars, innerVars, streamVars>>
  \/ \E tag \in 0..MaxTag, multiple \in BOOLEAN :
       receive_basic_ack(tag, multiple)
       /\ UNCHANGED <<apiVars, sendVars, consVars, connVars, contVars, peerVars, callVars, capVars, regVars, innerVars, streamVars>>
  \/ Channel_close
       /\ UNCHANGED <<apiVars, sendVars, consVars, connVars, contVars, peerVars, callVars, capVars, regVars, innerVars, streamVars>>
  \/ run_internal_future
       /\ UNCHANGED <<apiVars, sendVars, consVars, connVars, contVars, peerVars, callVars, capVars, regVars, innerVars, streamVars>>

(***************************************************************************)
(* A wait_for_confirms call of a user task: it awaits the last pending     *)
(* confirm, then drains the returned messages                              *)
(***************************************************************************)
\* the greatest of a non-empty set of tags: the one registered last
RECURSIVE last_of(_)
last_of(tags) ==
  LET t == CHOOSE x \in tags : TRUE IN
  IF tags = {t} THEN t
  ELSE LET rest == last_of(tags \ {t}) IN IF t > rest THEN t ELSE rest

\* Acknowledgements::get_last_pending: the promise of the pending confirm
\* registered last, if any
get_last_pending == IF acknowledgements = {} THEN None ELSE Some(last_of(acknowledgements))

\* ReturnedMessages::drain: every message accumulated, which it removes
drained == returned_messages.messages \o returned_messages.waiting_messages
drain ==
  returned_messages' = [returned_messages EXCEPT !.messages = <<>>,
                                                  !.waiting_messages = <<>>]

\* wait_for_confirms that does not await the pending confirm
wait_for_confirms_call_no_wait ==
  /\ waiter.pc \in {"idle", "done"}
  /\ waiter' = [pc |-> "done", tag |-> 0, error |-> "", returned |-> drained]
  /\ drain
  /\ UNCHANGED <<publish_call, channel_status, current_message, consumer_ready,
                 get_promise, content_result, started>>

\* Channel::wait_for_confirms up to the await of get_last_pending
wait_for_confirms_call ==
  /\ waiter.pc \in {"idle", "done"}
  /\ IF get_last_pending = None
     THEN /\ waiter' = [pc |-> "done", tag |-> 0, error |-> "", returned |-> drained]
          /\ drain
     ELSE /\ waiter' = [pc |-> "waiting", tag |-> get_last_pending[1],
                        error |-> "", returned |-> <<>>]
          /\ UNCHANGED returned_messages
  /\ UNCHANGED <<publish_call, channel_status, current_message, consumer_ready,
                 get_promise, content_result, started>>

\* Channel::wait_for_confirms once the awaited confirm is resolved:
\* `transpose()?` fails with its error, else the messages are drained
wait_for_confirms_resume ==
  /\ waiter.pc = "waiting"
  /\ confirms[waiter.tag] # <<>>
  /\ IF confirms[waiter.tag][1] \in {"Ack", "Nack"}
     THEN /\ waiter' = [waiter EXCEPT !.pc = "done", !.returned = drained]
          /\ drain
     ELSE /\ waiter' = [waiter EXCEPT !.pc = "done",
                                      !.error = confirms[waiter.tag][1]]
          /\ UNCHANGED returned_messages
  /\ UNCHANGED <<publish_call, channel_status, current_message, consumer_ready,
                 get_promise, content_result, started>>

\* the header frames that complete a returned message
EmptyBody == {0}

\* a user task that waits for the confirms of a channel in confirm mode, on
\* which publishes, confirms, returned messages and an error come
NextWait ==
  \/ on_channel_open_ok_received
       /\ UNCHANGED <<apiVars, sendVars, consVars, connVars, contVars, peerVars, callVars, capVars, regVars, innerVars, streamVars>>
  \/ on_confirm_select_ok_received
       /\ UNCHANGED <<apiVars, sendVars, consVars, connVars, contVars, peerVars, callVars, capVars, regVars, innerVars, streamVars>>
  \/ Channel_basic_publish
       /\ UNCHANGED <<apiVars, sendVars, consVars, connVars, contVars, peerVars, callVars, capVars, regVars, innerVars, streamVars>>
  \/ \E tag \in 0..MaxTag, multiple \in BOOLEAN :
       receive_basic_ack(tag, multiple)
       /\ UNCHANGED <<apiVars, sendVars, consVars, connVars, contVars, peerVars, callVars, capVars, regVars, innerVars, streamVars>>
  \/ \E tag \in 0..MaxTag, multiple \in BOOLEAN :
       receive_basic_nack(tag, multiple)
       /\ UNCHANGED <<apiVars, sendVars, consVars, connVars, contVars, peerVars, callVars, capVars, regVars, innerVars, streamVars>>
  \/ handle_content_header_frame_error
       /\ UNCHANGED <<apiVars, sendVars, consVars, connVars, contVars, peerVars, callVars, capVars, regVars, innerVars, streamVars>>
  \/ on_basic_return_received
       /\ UNCHANGED <<apiVars, chanVars, sendVars, consVars, connection_status,
                      connection_promise, wire, pending, conn_result, steps, peerVars, callVars, capVars, regVars, innerVars, streamVars>>
  \/ \E size \in EmptyBody :
       handle_content_header_frame("basic", size)
       /\ UNCHANGED <<apiVars, chanVars, sendVars, consVars, connection_status,
                      connection_promise, wire, pending, conn_result, steps, peerVars, callVars, capVars, regVars, innerVars, streamVars>>
  \/ wait_for_confirms_call
       /\ UNCHANGED <<apiVars, chanVars, sendVars, consVars, connVars, peerVars, capVars, regVars, innerVars, streamVars>>
  \/ wait_for_confirms_resume
       /\ UNCHANGED <<apiVars, chanVars, sendVars, consVars, connVars, peerVars, capVars, regVars, innerVars, streamVars>>

(***************************************************************************)
(* src/channel.rs: the consumers of a channel, as the Queues registry      *)
(* holds them, and what the channel tells them                             *)
(***************************************************************************)
MaxCancels == 2
RegistryTags == {"ct1", "ct2"}

\* the consumer whose stream is followed (futures/src/consumer.rs)
StreamTag == "ct1"

InitRegistry ==
  /\ consumers = EmptyMap
  /\ cancel_ok_futures = <<>>
  /\ cancel_oks = <<>>

\* Queues::register_consumer, as the Basic.ConsumeOk handler calls it
register_consumer(consumer_tag) ==
  /\ status_can_receive_messages
  /\ consumer_tag \notin DOMAIN consumers
  /\ consumers' = MapPut(consumers, consumer_tag, [canceled |-> FALSE, error |-> ""])
  /\ UNCHANGED <<cancel_ok_futures, cancel_oks>>

\* Queues::deregister_consumer
deregister_consumer(consumer_tag) ==
  consumers' = MapRemove(consumers, consumer_tag)

\* on_basic_cancel_received that answers whatever nowait is
on_basic_cancel_received_always_replies(consumer_tag, nowait) ==
  /\ Len(cancel_ok_futures) + Len(cancel_oks) < MaxCancels
  /\ deregister_consumer(consumer_tag)
  /\ cancel_ok_futures' = Append(cancel_ok_futures, consumer_tag)
  /\ UNCHANGED cancel_oks

\* Channel::on_basic_cancel_received
on_basic_cancel_received(consumer_tag, nowait) ==
  /\ nowait \/ Len(cancel_ok_futures) + Len(cancel_oks) < MaxCancels
  /\ deregister_consumer(consumer_tag)
  /\ cancel_ok_futures' =
       IF ~nowait THEN Append(cancel_ok_futures, consumer_tag)
       ELSE cancel_ok_futures
  /\ UNCHANGED cancel_oks

\* Channel::receive_basic_cancel: the state check of the generated code,
\* then the handler
receive_basic_cancel(consumer_tag, nowait) ==
  IF ~status_can_receive_messages
  THEN Refused("InvalidChannelState") /\ UNCHANGED regVars
  ELSE /\ on_basic_cancel_received(consumer_tag, nowait)
       /\ result' = "Ok"
       /\ UNCHANGED <<status, delivery_tag, acknowledgements, confirms,
                      expected_close_ok, internal_rpc, removed>>

\* the executor runs the oldest basic_cancel_ok future: Basic.CancelOk is
\* sent for its consumer tag
run_basic_cancel_ok ==
  /\ cancel_ok_futures # <<>>
  /\ cancel_ok_futures' = Tail(cancel_ok_futures)
  /\ cancel_oks' = Append(cancel_oks, Head(cancel_ok_futures))
  /\ UNCHANGED consumers

\* the Basic.ConsumeOk and Basic.Cancel of the broker on a channel
NextCancel ==
  \/ on_channel_open_ok_received
       /\ UNCHANGED <<apiVars, sendVars, consVars, connVars, contVars, peerVars, callVars, capVars, regVars, innerVars, streamVars>>
  \/ \E consumer_tag \in RegistryTags :
       register_consumer(consumer_tag)
       /\ UNCHANGED <<apiVars, chanVars, sendVars, consVars, connVars, contVars, peerVars, callVars, capVars, innerVars, streamVars>>
  \/ \E consumer_tag \in RegistryTags, nowait \in BOOLEAN :
       receive_basic_cancel(consumer_tag, nowait)
       /\ UNCHANGED <<apiVars, sendVars, consVars, connVars, contVars, peerVars, callVars, capVars, innerVars, streamVars>>
  \/ run_basic_cancel_ok
       /\ UNCHANGED <<apiVars, chanVars, sendVars, consVars, connVars, contVars, peerVars, callVars, capVars, innerVars, streamVars>>
  \/ Channel_close
       /\ UNCHANGED <<apiVars, sendVars, consVars, connVars, contVars, peerVars, callVars, capVars, regVars, innerVars, streamVars>>

\* cancel_consumers that leaves the consumers as they are
cancel_consumers_skipped == UNCHANGED <<consumers, consVars, innerVars, streamVars>>

\* Queues::cancel_consumers: every consumer is cancelled
cancel_consumers ==
  /\ consumers' = [t \in DOMAIN consumers |-> [consumers[t] EXCEPT !.canceled = TRUE]]
  /\ IF StreamTag \in DOMAIN consumers THEN cancel ELSE UNCHANGED consVars

\* Queues::error_consumers: every consumer is given the error
error_consumers(error) ==
  /\ consumers' = [t \in DOMAIN consumers |-> [consumers[t] EXCEPT !.error = error]]
  /\ UNCHANGED consVars

\* the consumers' side of Channel::set_closed (cancel_consumers) and of
\* Channel::set_error (error_consumers), which both end with remove_channel
set_closed_or_error_consumers ==
  /\ IF Len(removed') = Len(removed) THEN UNCHANGED <<consumers, consVars, innerVars, streamVars>>
     ELSE IF status'.state = "Closed" THEN cancel_consumers
     ELSE error_consumers(removed'[Len(removed')])
  /\ UNCHANGED <<cancel_ok_futures, cancel_oks>>

\* a channel with consumers, up to its closing or its error
NextConsumers ==
  \/ on_channel_open_ok_received
       /\ UNCHANGED <<apiVars, sendVars, consVars, connVars, contVars, peerVars, callVars, capVars, regVars, innerVars, streamVars>>
  \/ \E consumer_tag \in RegistryTags :
       register_consumer(consumer_tag)
       /\ UNCHANGED <<apiVars, chanVars, sendVars, consVars, connVars, contVars, peerVars, callVars, capVars, innerVars, streamVars>>
  \/ new_delivery
       /\ UNCHANGED <<apiVars, chanVars, sendVars, connVars, contVars, peerVars, callVars, capVars, regVars, innerVars, streamVars>>
  \/ \E transport \in TransportPolls :
       poll(transport)
       /\ UNCHANGED <<apiVars, chanVars, sendVars, connVars, contVars, peerVars, callVars, capVars, regVars, innerVars, streamVars>>
  \/ Channel_close
       /\ UNCHANGED <<apiVars, sendVars, consVars, connVars, contVars, peerVars, callVars, capVars, regVars, innerVars, streamVars>>
  \/ \E error \in ServerCloseErrors :
       Channel_receive_channel_close(error)
       /\ UNCHANGED <<apiVars, sendVars, consVars, connVars, contVars, peerVars, callVars, capVars, regVars, innerVars, streamVars>>
  \/ run_internal_future /\ set_closed_or_error_consumers
       /\ UNCHANGED <<apiVars, sendVars, connVars, contVars, peerVars, callVars, capVars, innerVars, streamVars>>
  \/ Channel_receive_channel_close_ok /\ set_closed_or_error_consumers
       /\ UNCHANGED <<apiVars, sendVars, connVars, contVars, peerVars, callVars, capVars, innerVars, streamVars>>
  \/ handle_content_header_frame_error /\ set_closed_or_error_consumers
       /\ UNCHANGED <<apiVars, sendVars, connVars, contVars, peerVars, callVars, capVars, innerVars, streamVars>>

\* the task of the stream is polled again when the transport is ready
PolledWhenReady ==
  poll("Ready")
  /\ UNCHANGED <<apiVars, chanVars, sendVars, connVars, contVars, peerVars, callVars, capVars, regVars, innerVars, streamVars>>

(***************************************************************************)
(* src/channel.rs: what the channel tells the consumers' subscribers after *)
(* it has sent Basic.RecoverAsync, Basic.Ack or Basic.Nack                 *)
(***************************************************************************)
MaxReady == 3
AckTags == {0, 1}

\* ConsumerInner::default
ConsumerInner_default == [deliveries |-> <<>>, canceled |-> FALSE]

InitInners == inners = [t \in RegistryTags |-> ConsumerInner_default]

\* ConsumerSub::new_delivery, as of the subscriber of consumer_tag
Sub_new_delivery(inner, delivery) ==
  [inner EXCEPT !.deliveries = Append(@, delivery)]

\* ConsumerSub::drop_prefetched_messages
Sub_drop_prefetched_messages(inner) == [inner EXCEPT !.deliveries = <<>>]

\* Basic.ConsumeOk: a new consumer, with a new subscriber, is registered
consume_ok_received(consumer_tag) ==
  /\ register_consumer(consumer_tag)
  /\ inners' = [inners EXCEPT ![consumer_tag] = ConsumerInner_default]

\* a delivery for a registered consumer is complete and given to its
\* subscriber; deliveries are numbered as they are started
delivery_completed(consumer_tag) ==
  /\ consumer_tag \in DOMAIN consumers
  /\ delivered < MaxReady
  /\ delivered' = delivered + 1
  /\ inners' = [inners EXCEPT ![consumer_tag] = Sub_new_delivery(@, delivered + 1)]
  /\ UNCHANGED <<deliveries, canceled, task, yielded, ended, due, polled>>

\* Queues::drop_prefetched_messages: every registered consumer drops
Queues_drop_prefetched_messages ==
  inners' = [t \in DOMAIN inners |->
               IF t \in DOMAIN consumers
               THEN Sub_drop_prefetched_messages(inners[t])
               ELSE inners[t]]

\* Channel::on_basic_recover_async_sent
on_basic_recover_async_sent ==
  /\ Queues_drop_prefetched_messages
  /\ UNCHANGED regVars

\* on_basic_ack_sent that drops on every cumulative acknowledgement
on_basic_ack_sent_any_tag(multiple, tag) ==
  /\ IF multiple THEN Queues_drop_prefetched_messages ELSE UNCHANGED inners
  /\ UNCHANGED regVars

\* Channel::on_basic_ack_sent
on_basic_ack_sent(multiple, tag) ==
  /\ IF multiple /\ tag = 0
     THEN Queues_drop_prefetched_messages
     ELSE UNCHANGED inners
  /\ UNCHANGED regVars

\* Channel::on_basic_nack_sent
on_basic_nack_sent(multiple, tag) ==
  /\ IF multiple /\ tag = 0
     THEN Queues_drop_prefetched_messages
     ELSE UNCHANGED inners
  /\ UNCHANGED regVars

\* a channel with consumers that acknowledges, rejects and asks for recovery
NextRecover ==
  \/ on_channel_open_ok_received
       /\ UNCHANGED <<apiVars, sendVars, consVars, connVars, contVars, peerVars, callVars, capVars, regVars, innerVars, streamVars>>
  \/ \E consumer_tag \in RegistryTags :
       consume_ok_received(consumer_tag)
       /\ UNCHANGED <<apiVars, chanVars, sendVars, consVars, connVars, contVars, peerVars, callVars, capVars, streamVars>>
  \/ \E consumer_tag \in RegistryTags :
       delivery_completed(consumer_tag)
       /\ UNCHANGED <<apiVars, chanVars, sendVars, connVars, contVars, peerVars, callVars, capVars, regVars, streamVars>>
  \/ \E consumer_tag \in RegistryTags :
       receive_basic_cancel(consumer_tag, FALSE)
       /\ UNCHANGED <<apiVars, sendVars, consVars, connVars, contVars, peerVars, callVars, capVars, innerVars, streamVars>>
  \/ on_basic_recover_async_sent
       /\ UNCHANGED <<apiVars, chanVars, sendVars, consVars, connVars, contVars, peerVars, callVars, capVars, streamVars>>
  \/ \E multiple \in BOOLEAN, tag \in AckTags :
       on_basic_ack_sent(multiple, tag)
       /\ UNCHANGED <<apiVars, chanVars, sendVars, consVars, connVars, contVars, peerVars, callVars, capVars, streamVars>>
  \/ \E multiple \in BOOLEAN, tag \in AckTags :
       on_basic_nack_sent(multiple, tag)
       /\ UNCHANGED <<apiVars, chanVars, sendVars, consVars, connVars, contVars, peerVars, callVars, capVars, streamVars>>

(***************************************************************************)
(* src/stream.rs: TcpStream, from its construction to the end of the TLS   *)
(* handshake, and the reads and writes it forwards                         *)
(***************************************************************************)
MaxHandshakes == 3
MaxIo == 2

\* Inner::Connected(stream) and Inner::Handshaking(handshaker), where
\* handshaker is Some(mid-handshake stream) or None
Inner_Connected == [tag |-> "Connected", handshaker |-> None]
Inner_Handshaking(handshaker) == [tag |-> "Handshaking", handshaker |-> handshaker]
MidHandshake == "MidHandshakeTlsStream"

\* the tcp::HandshakeResult given to try_from, and what a handshake step of
\* the mid-handshake stream gives
HandshakeResults == {"Ok(connected)", "Ok(handshaking)", "Err(WouldBlock)"}
HandshakeOutcomes == {"Ok", "Err(WouldBlock)", "Err(Failure)"}

\* TcpStream::try_from, for the results it builds a stream from
TcpStream_try_from(handshake_result) ==
  IF handshake_result = "Ok(connected)" THEN Inner_Connected
  ELSE Inner_Handshaking(Some(MidHandshake))

\* the stream built from handshake_result, before any call on it
InitStreamOf(handshake_result) ==
  /\ stream = TcpStream_try_from(handshake_result)
  /\ stream_result = "None"
  /\ handshakes = 0
  /\ reads = 0
  /\ writes = 0

\* where the stream is not followed, it is one whose handshake would block
InitStream == InitStreamOf("Err(WouldBlock)")

\* Option::unwrap of the handshaker panics on None
unwrap_panics == stream.tag = "Handshaking" /\ stream.handshaker = None

\* the thread that uses the stream has not panicked
Running == stream_result # "panic"

\* TcpStream::handshake; outcome is what the handshake of the mid-handshake
\* stream taken out of the Option gives
handshake(outcome) ==
  /\ Running
  /\ handshakes < MaxHandshakes
  /\ handshakes' = handshakes + 1
  /\ IF stream.tag # "Handshaking" THEN
       /\ stream_result' = "Ok"
       /\ UNCHANGED stream
     ELSE IF unwrap_panics THEN
       /\ stream_result' = "panic"
       /\ UNCHANGED stream
     ELSE IF outcome = "Ok" THEN
       /\ stream' = Inner_Connected
       /\ stream_result' = "Ok"
     ELSE IF outcome = "Err(WouldBlock)" THEN
       /\ stream' = Inner_Handshaking(Some(MidHandshake))
       /\ stream_result' = "Ok"
     ELSE \* into_mid_handshake_tls_stream()? returns the failure
       /\ stream' = Inner_Handshaking(None)
       /\ stream_result' = "Err"
  /\ UNCHANGED <<reads, writes>>

\* TcpStream::inner and TcpStream::inner_mut
TcpStream_inner ==
  /\ Running
  /\ stream_result' = IF unwrap_panics THEN "panic" ELSE "stream"
  /\ UNCHANGED <<stream, handshakes, reads, writes>>

\* Read for TcpStream, through fwd_impl
TcpStream_read ==
  /\ Running
  /\ reads < MaxIo
  /\ IF unwrap_panics
     THEN stream_result' = "panic" /\ UNCHANGED reads
     ELSE stream_result' = "read" /\ reads' = reads + 1
  /\ UNCHANGED <<stream, handshakes, writes>>

\* Write for TcpStream, through fwd_impl
TcpStream_write ==
  /\ Running
  /\ writes < MaxIo
  /\ IF unwrap_panics
     THEN stream_result' = "panic" /\ UNCHANGED writes
     ELSE stream_result' = "written" /\ writes' = writes + 1
  /\ UNCHANGED <<stream, handshakes, reads>>

NextStream ==
  \/ \E outcome \in HandshakeOutcomes :
       handshake(outcome)
       /\ UNCHANGED <<apiVars, chanVars, sendVars, consVars, connVars, contVars, peerVars, callVars, capVars, regVars, innerVars>>
  \/ TcpStream_inner
       /\ UNCHANGED <<apiVars, chanVars, sendVars, consVars, connVars, contVars, peerVars, callVars, capVars, regVars, innerVars>>
  \/ TcpStream_read
       /\ UNCHANGED <<apiVars, chanVars, sendVars, consVars, connVars, contVars, peerVars, callVars, capVars, regVars, innerVars>>
  \/ TcpStream_write
       /\ UNCHANGED <<apiVars, chanVars, sendVars, consVars, connVars, contVars, peerVars, callVars, capVars, regVars, innerVars>>

Init ==
  /\ InitApi /\ InitChannel /\ InitSend /\ InitConsumer /\ InitConnection
  /\ InitContent
  /\ InitPeer
  /\ InitCall
  /\ request_cap = MaxReq
  /\ InitRegistry
  /\ InitInners
  /\ InitStream

\* the request operations other than channel_open, on channel ch
OtherRequests(ch) ==
  \/ \E active \in BOOLEAN : channel_flow(ch, active)
  \/ channel_close(ch)
  \/ \E queue \in QueueNames : queue_declare(ch, queue)
  \/ \E queue \in QueueNames, exchange \in Exchanges, routing_key \in RoutingKeys :
       queue_bind(ch, queue, exchange, routing_key)
  \/ \E queue \in QueueNames : queue_purge(ch, queue)
  \/ \E queue \in QueueNames : queue_delete(ch, queue)
  \/ \E queue \in QueueNames, exchange \in Exchanges, routing_key \in RoutingKeys :
       queue_unbind(ch, queue, exchange, routing_key)
  \/ \E q \in QosValues, global \in BOOLEAN : basic_qos(ch, q[1], q[2], global)
  \/ \E queue \in QueueNames, consumer_tag \in ConsumerTags, flags \in ConsumeFlags :
       basic_consume(ch, queue, consumer_tag, flags)
  \/ \E consumer_tag \in ConsumerTags : basic_cancel(ch, consumer_tag)
  \/ \E queue \in QueueNames : basic_get(ch, queue)
  \/ basic_recover(ch)
  \/ basic_publish(ch)
  \/ basic_ack(ch)
  \/ basic_reject(ch)
  \/ basic_recover_async(ch)
  \/ basic_nack(ch)

Requests ==
  \E ch \in AnyChannelId :
    /\ channel_open(ch) \/ OtherRequests(ch)
    /\ GhostSend(ch)

\* the awaited variants, and the handler of the reply each one awaits
ReplyKinds ==
  {"AwaitingChannelOpenOk", "AwaitingChannelFlowOk", "AwaitingChannelCloseOk",
   "AwaitingQueueDeclareOk", "AwaitingQueueBindOk", "AwaitingQueuePurgeOk",
   "AwaitingQueueDeleteOk", "AwaitingQueueUnbindOk", "AwaitingBasicQosOk",
   "AwaitingBasicConsumeOk", "AwaitingBasicCancelOk", "AwaitingBasicGetAnswer",
   "AwaitingBasicRecoverOk"}

ReplyHandler(ch, kind) ==
  \/ kind = "AwaitingChannelOpenOk" /\ receive_channel_open_ok(ch)
  \/ kind = "AwaitingChannelFlowOk"
       /\ \E active \in BOOLEAN : receive_channel_flow_ok(ch, active)
  \/ kind = "AwaitingChannelCloseOk" /\ receive_channel_close_ok(ch)
  \/ kind = "AwaitingQueueDeclareOk"
       /\ \E queue \in QueueNames : receive_queue_declare_ok(ch, queue)
  \/ kind = "AwaitingQueueBindOk" /\ receive_queue_bind_ok(ch)
  \/ kind = "AwaitingQueuePurgeOk" /\ receive_queue_purge_ok(ch)
  \/ kind = "AwaitingQueueDeleteOk" /\ receive_queue_delete_ok(ch)
  \/ kind = "AwaitingQueueUnbindOk" /\ receive_queue_unbind_ok(ch)
  \/ kind = "AwaitingBasicQosOk" /\ receive_basic_qos_ok(ch)
  \/ kind = "AwaitingBasicConsumeOk"
       /\ \E consumer_tag \in ConsumerTags : receive_basic_consume_ok(ch, consumer_tag)
  \/ kind = "AwaitingBasicCancelOk"
       /\ \E consumer_tag \in ConsumerTags : receive_basic_cancel_ok(ch, consumer_tag)
  \/ kind = "AwaitingBasicGetAnswer" /\ receive_basic_get_ok(ch)
  \/ kind = "AwaitingBasicGetAnswer" /\ receive_basic_get_empty(ch)
  \/ kind = "AwaitingBasicRecoverOk" /\ receive_basic_recover_ok(ch)

Replies ==
  \E ch \in AnyChannelId, kind \in ReplyKinds :
    ReplyHandler(ch, kind) /\ GhostRecv(ch, kind)

\* a content header or body frame on ch
ContentFrame(ch) ==
  \/ \E size \in 0..MaxBody : Connection_handle_content_header_frame(ch, size)
  \/ \E size \in 1..MaxBody : Connection_handle_body_frame(ch, size)

ServerMethods ==
  \E ch \in AnyChannelId :
    \/ \E active \in BOOLEAN : receive_channel_flow(ch, active) /\ GhostSkip
    \/ receive_channel_close(ch) /\ GhostBreak(ch)
    \/ receive_basic_amqp_return(ch) /\ GhostSkip
    \/ \E consumer_tag \in ConsumerTags :
         receive_basic_deliver(ch, consumer_tag) /\ GhostSkip
    \/ ContentFrame(ch) /\ GhostSkip

Next ==
  \/ Requests /\ UNCHANGED <<chanVars, sendVars, consVars, connVars, contVars, peerVars, callVars, capVars, regVars, innerVars, streamVars>>
  \/ Replies /\ UNCHANGED <<chanVars, sendVars, consVars, connVars, contVars, peerVars, callVars, capVars, regVars, innerVars, streamVars>>
  \/ ServerMethods /\ UNCHANGED <<chanVars, sendVars, consVars, connVars, contVars, peerVars, callVars, capVars, regVars, innerVars, streamVars>>

Spec == Init /\ [][Next]_vars

\* the Channel alone
\* the body-bearing sends of concurrent callers
SpecSend == Init /\ [][NextSend]_vars

\* the consumer's subscriber and stream
SpecConsumer == Init /\ [][NextConsumer]_vars

SpecConfirm == Init /\ [][NextChannel]_vars

\* the delivery tags of two channels
SpecTags == Init /\ [][NextTags]_vars

\* a publishing user task
SpecPublish == Init /\ [][NextPublish]_vars

\* a user task that waits for the confirms
SpecWait == Init /\ [][NextWait]_vars

(***************************************************************************)
(* Two channels of one lapin-async Connection                              *)
(***************************************************************************)
PairChannelIds == {1, 2}
PairQosValues == {<<0, 1>>, <<1, 2>>}

\* Connection::new, then create_channel twice
InitPair ==
  /\ channels = [ch \in PairChannelIds |-> Channel_new]
  /\ frame_queue = <<>>
  /\ request_index = 0
  /\ finished_reqs = {}
  /\ finished_get_reqs = EmptyMap
  /\ prefetch_size = 0
  /\ prefetch_count = 0
  /\ ret = Ret("new", 0, "Ok")
  /\ owed = [ch \in ChannelIds |-> <<>>]
  /\ replied = [ch \in ChannelIds |-> {}]
  /\ inorder = [ch \in ChannelIds |-> TRUE]
  /\ InitChannel /\ InitSend /\ InitConsumer /\ InitConnection
  /\ InitContent
  /\ InitPeer
  /\ InitCall
  /\ request_cap = MaxReq
  /\ InitRegistry
  /\ InitInners
  /\ InitStream

\* the requests, replies and broker methods of flow control and prefetch
NextPair ==
  \/ \E ch \in PairChannelIds :
       channel_open(ch) /\ GhostSkip
       /\ UNCHANGED <<chanVars, sendVars, consVars, connVars, contVars, peerVars, callVars, capVars, regVars, innerVars, streamVars>>
  \/ \E ch \in PairChannelIds :
       receive_channel_open_ok(ch) /\ GhostSkip
       /\ UNCHANGED <<chanVars, sendVars, consVars, connVars, contVars, peerVars, callVars, capVars, regVars, innerVars, streamVars>>
  \/ \E ch \in PairChannelIds, active \in BOOLEAN :
       channel_flow(ch, active) /\ GhostSkip
       /\ UNCHANGED <<chanVars, sendVars, consVars, connVars, contVars, peerVars, callVars, capVars, regVars, innerVars, streamVars>>
  \/ \E ch \in PairChannelIds, active \in BOOLEAN :
       receive_channel_flow_ok(ch, active) /\ GhostSkip
       /\ UNCHANGED <<chanVars, sendVars, consVars, connVars, contVars, peerVars, callVars, capVars, regVars, innerVars, streamVars>>
  \/ \E ch \in PairChannelIds, active \in BOOLEAN :
       receive_channel_flow(ch, active) /\ GhostSkip
       /\ UNCHANGED <<chanVars, sendVars, consVars, connVars, contVars, peerVars, callVars, capVars, regVars, innerVars, streamVars>>
  \/ \E ch \in PairChannelIds, q \in PairQosValues, global \in BOOLEAN :
       basic_qos(ch, q[1], q[2], global) /\ GhostSkip
       /\ UNCHANGED <<chanVars, sendVars, consVars, connVars, contVars, peerVars, callVars, capVars, regVars, innerVars, streamVars>>
  \/ \E ch \in PairChannelIds :
       receive_basic_qos_ok(ch) /\ GhostSkip
       /\ UNCHANGED <<chanVars, sendVars, consVars, connVars, contVars, peerVars, callVars, capVars, regVars, innerVars, streamVars>>

\* two channels: flow control and prefetch
SpecPair == InitPair /\ [][NextPair]_vars

(***************************************************************************)
(* The queues of a connected channel: bindings and deletion                *)
(***************************************************************************)
MaxQueueReq == 4

\* the connection once channel_open and queue_declare("q1") have been
\* answered and the writer has sent their frames
InitQueues ==
  /\ channels = [ch \in ChannelIds |->
                   [Channel_new EXCEPT
                      !.state = Connected,
                      !.queues = MapPut(EmptyMap, "q1",
                                        [Queue_new EXCEPT !.created = TRUE])]]
  /\ frame_queue = <<>>
  /\ finished_reqs = {0, 1}
  /\ request_index = Cardinality(finished_reqs)
  /\ finished_get_reqs = EmptyMap
  /\ prefetch_size = 0
  /\ prefetch_count = 0
  /\ ret = Ret("receive_queue_declare_ok", 1, "Ok")
  /\ owed = [ch \in ChannelIds |-> <<>>]
  /\ replied = [ch \in ChannelIds |-> {}]
  /\ inorder = [ch \in ChannelIds |-> TRUE]
  /\ InitChannel /\ InitSend /\ InitConsumer /\ InitConnection
  /\ InitContent
  /\ InitPeer
  /\ InitCall
  /\ request_cap = MaxQueueReq
  /\ InitRegistry
  /\ InitInners
  /\ InitStream

\* the queue requests of a channel and their replies
NextQueues ==
  \/ \E ch \in ChannelIds, queue \in QueueNames :
       queue_declare(ch, queue) /\ GhostSkip
       /\ UNCHANGED <<chanVars, sendVars, consVars, connVars, contVars, peerVars, callVars, capVars, regVars, innerVars, streamVars>>
  \/ \E ch \in ChannelIds, queue \in QueueNames, exchange \in Exchanges, routing_key \in RoutingKeys :
       queue_bind(ch, queue, exchange, routing_key) /\ GhostSkip
       /\ UNCHANGED <<chanVars, sendVars, consVars, connVars, contVars, peerVars, callVars, capVars, regVars, innerVars, streamVars>>
  \/ \E ch \in ChannelIds, queue \in QueueNames, exchange \in Exchanges, routing_key \in RoutingKeys :
       queue_unbind(ch, queue, exchange, routing_key) /\ GhostSkip
       /\ UNCHANGED <<chanVars, sendVars, consVars, connVars, contVars, peerVars, callVars, capVars, regVars, innerVars, streamVars>>
  \/ \E ch \in ChannelIds, queue \in QueueNames :
       queue_delete(ch, queue) /\ GhostSkip
       /\ UNCHANGED <<chanVars, sendVars, consVars, connVars, contVars, peerVars, callVars, capVars, regVars, innerVars, streamVars>>
  \/ \E ch \in ChannelIds, queue \in QueueNames :
       receive_queue_declare_ok(ch, queue) /\ GhostSkip
       /\ UNCHANGED <<chanVars, sendVars, consVars, connVars, contVars, peerVars, callVars, capVars, regVars, innerVars, streamVars>>
  \/ \E ch \in ChannelIds :
       receive_queue_bind_ok(ch) /\ GhostSkip
       /\ UNCHANGED <<chanVars, sendVars, consVars, connVars, contVars, peerVars, callVars, capVars, regVars, innerVars, streamVars>>
  \/ \E ch \in ChannelIds :
       receive_queue_unbind_ok(ch) /\ GhostSkip
       /\ UNCHANGED <<chanVars, sendVars, consVars, connVars, contVars, peerVars, callVars, capVars, regVars, innerVars, streamVars>>
  \/ \E ch \in ChannelIds :
       receive_queue_delete_ok(ch) /\ GhostSkip
       /\ UNCHANGED <<chanVars, sendVars, consVars, connVars, contVars, peerVars, callVars, capVars, regVars, innerVars, streamVars>>

\* one channel: queues and their bindings
SpecQueues == InitQueues /\ [][NextQueues]_vars

\* the Basic.Cancel of the broker
SpecCancel == Init /\ [][NextCancel]_vars

\* the consumers of a channel and what it sends about their deliveries
SpecRecover == Init /\ [][NextRecover]_vars

\* a stream built from any of the handshake results try_from accepts
InitAnyStream ==
  /\ InitApi /\ InitChannel /\ InitSend /\ InitConsumer /\ InitConnection
  /\ InitContent
  /\ InitPeer
  /\ InitCall
  /\ request_cap = MaxReq
  /\ InitRegistry
  /\ InitInners
  /\ \E handshake_result \in HandshakeResults : InitStreamOf(handshake_result)

\* the stream of the connection
SpecStream == InitAnyStream /\ [][NextStream]_vars

\* the consumers of a channel that closes or fails
SpecConsumers == Init /\ [][NextConsumers]_vars
SpecConsumersFair == SpecConsumers /\ WF_vars(PolledWhenReady)

\* the connection: configuration, handshake, closing
SpecConnection == Init /\ [][NextConnection]_vars

\* the negotiation of the configuration
SpecTune == Init /\ [][NextTune]_vars

\* the content frames a channel receives
SpecContent == Init /\ [][NextContent]_vars

\* the broker confirms (Ack or Nack) the publish of a pending tag
BrokerConfirms(tag) ==
  /\ tag \in acknowledgements
  /\ receive_basic_ack(tag, FALSE) \/ receive_basic_nack(tag, FALSE)
  /\ UNCHANGED <<apiVars, sendVars, consVars, connVars, contVars, peerVars, callVars, capVars, regVars, innerVars, streamVars>>

\* the Channel, with a broker that confirms every publish it has received
SpecConfirmFair ==
  /\ Init
  /\ [][NextChannel]_vars
  /\ \A tag \in Tags : WF_vars(BrokerConfirms(tag))

(***************************************************************************)
(* Claims about the request/reply engine (checked under Spec)              *)
(***************************************************************************)
\* the channel is between a body-bearing method and its final Body frame
InContent(c) == c.state.tag \in {"WillReceiveContent", "ReceivingContent"}

\* C1: while the broker's replies arrive in the order the requests were
\* sent, the handler of each reply consumes the expected reply recorded for
\* its own request: it succeeds, the request's id is marked finished, and
\* the only recorded expected reply that leaves the queue is that one.
C1_InOrderRepliesMatch ==
  [][\A ch \in ChannelIds :
       (inorder'[ch] /\ replied'[ch] # replied[ch]) =>
         /\ ret' = "Ok"
         /\ replied'[ch] \subseteq finished_reqs' \cup DOMAIN finished_get_reqs'
         /\ channels'[ch].awaiting = Tail(channels[ch].awaiting)]_vars

\* the state check a reply handler makes before it looks at the queue
PassesStateCheck(ch, kind) ==
  IF kind = "AwaitingChannelOpenOk" THEN check_state(ch, Initial)
  ELSE is_connected(channels[ch])

\* the handler sets the channel to Error, fails with UnexpectedAnswer and
\* marks nothing finished
FailsUnexpected(ch) ==
  /\ channels'[ch].state = Error
  /\ ret' = "UnexpectedAnswer"
  /\ finished_reqs' = finished_reqs
  /\ finished_get_reqs' = finished_get_reqs

\* C2 as stated: whenever a reply is received on a channel whose oldest
\* expected reply is not the awaited variant (or that expects none), the
\* channel becomes Error, the handler fails with UnexpectedAnswer and no
\* request is marked finished.
C2_MismatchAlwaysUnexpected ==
  [][\A ch \in ChannelIds, kind \in ReplyKinds :
       (next_answer(channels, ch).kind # kind /\ ReplyHandler(ch, kind))
         => FailsUnexpected(ch)]_vars

\* C2: a reply received on a channel that passes the handler's state check
\* (connected; Initial for Channel.OpenOk), whose oldest expected reply is
\* not the awaited variant, sets the channel to Error and fails with
\* UnexpectedAnswer, and no request is marked finished.
C2_MismatchUnexpected ==
  [][\A ch \in ChannelIds, kind \in ReplyKinds :
       (/\ PassesStateCheck(ch, kind)
        /\ next_answer(channels, ch).kind # kind
        /\ ReplyHandler(ch, kind))
         => FailsUnexpected(ch)]_vars

\* a Queue.BindOk (or another reply) has arrived while the channel expected
\* the reply of the Queue.Declare sent after the channel was opened
C2_Witness ==
  \E ch \in ChannelIds :
    /\ channels[ch].state = Error
    /\ ret = "UnexpectedAnswer"
    /\ finished_reqs = {0}
    /\ request_index = 2
    /\ DOMAIN channels[ch].queues # {}
    /\ channels[ch].awaiting = <<>>

\* C3: while a channel is in WillReceiveContent or ReceivingContent, only
\* the content header and body frames of the assembly are accepted on it:
\* every request and every received method leaves the channel as it is,
\* queues no frame and fails.
C3_OnlyContentFramesAccepted ==
  [][\A ch \in ChannelIds :
       InContent(channels[ch]) =>
         \/ ContentFrame(ch)
         \/ /\ channels'[ch] = channels[ch]
            /\ frame_queue' = frame_queue
            /\ ret' # "Ok"]_vars

\* the request has sent nothing and recorded no expected reply
NothingSent(ch) ==
  /\ frame_queue' = frame_queue
  /\ request_index' = request_index
  /\ ch \in DOMAIN channels => channels'[ch].awaiting = channels[ch].awaiting

\* C10: a request other than channel_open is accepted only on a channel
\* whose state is Connected, and channel_open only on one that is Initial;
\* on an unknown channel id the request fails with InvalidChannel, in any
\* other state with InvalidState, and then it sends no frame and records no
\* expected reply.
C10_RequestsOnlyWhenConnected ==
  [][\A ch \in AnyChannelId :
       /\ (OtherRequests(ch) /\ ch \notin DOMAIN channels)
            => (ret' = "InvalidChannel" /\ NothingSent(ch))
       /\ (channel_open(ch) /\ ch \notin DOMAIN channels)
            => (ret' = "InvalidChannel" /\ NothingSent(ch))
       /\ (OtherRequests(ch) /\ ch \in DOMAIN channels
             /\ channels[ch].state # Connected)
            => (ret' = "InvalidState" /\ NothingSent(ch))
       /\ (channel_open(ch) /\ ch \in DOMAIN channels
             /\ channels[ch].state # Initial)
            => (ret' = "InvalidState" /\ NothingSent(ch))]_vars

(***************************************************************************)
(* Claims about publisher confirms (checked under SpecConfirm and, for     *)
(* the liveness of C4, under SpecConfirmFair)                              *)
(***************************************************************************)
\* the tags given to publishes so far
Published == 1..delivery_tag

\* what a PublisherConfirm promise can be resolved with
Outcomes ==
  {"Ack", "Nack", ClosedError, FrameError} \cup ServerCloseErrors

Covered(tag, multiple) ==
  IF ~multiple THEN {tag} \cap acknowledgements
  ELSE IF tag > 0 THEN {t \in acknowledgements : t <= tag}
  ELSE acknowledgements

\* exactly the covered tags are resolved, with the given outcome
ResolvesCovered(tag, multiple, outcome) ==
  /\ acknowledgements' = acknowledgements \ Covered(tag, multiple)
  /\ \A t \in Tags :
       confirms'[t] = IF t \in Covered(tag, multiple)
                      THEN Append(confirms[t], outcome)
                      ELSE confirms[t]

\* C5: in confirm mode a received Basic.Ack (Basic.Nack) with
\* multiple=false resolves exactly the pending entry of its delivery tag;
\* with multiple=true and tag T > 0 every pending tag <= T and no other;
\* with multiple=true and tag 0 every pending entry; each as Ack (Nack).
C5_AckNackCoverage ==
  [][\A tag \in 0..MaxTag, multiple \in BOOLEAN :
       /\ (status.confirm /\ status_can_receive_messages
             /\ receive_basic_ack(tag, multiple))
            => ResolvesCovered(tag, multiple, "Ack")
       /\ (status.confirm /\ status_can_receive_messages
             /\ receive_basic_nack(tag, multiple))
            => ResolvesCovered(tag, multiple, "Nack")]_vars

\* publishes 1, 2, 3 have all been resolved as Ack (Ack{2, multiple}, Ack{3})
C5_Witness ==
  /\ delivery_tag = 3
  /\ acknowledgements = {}
  /\ \A t \in Tags : confirms[t] = <<"Ack">>
  /\ status.state = "Connected"

\* C6: when the channel becomes Closed or Error, every publisher confirm
\* that was pending is resolved with the error given to set_closed or
\* set_error (the one given to remove_channel), no other promise is
\* touched, and nothing is pending on a Closed or Error channel.
C6_CloseResolvesPending ==
  [][/\ (status'.state \in {"Closed", "Error"}
           /\ status.state \notin {"Closed", "Error"})
          => /\ Len(removed') = Len(removed) + 1
             /\ \A t \in Tags :
                  confirms'[t] = IF t \in acknowledgements
                                 THEN Append(confirms[t], removed'[Len(removed')])
                                 ELSE confirms[t]
     /\ status'.state \in {"Closed", "Error"} => acknowledgements' = {}]_vars

\* a channel closed by Channel.CloseOk while a publish was outstanding
C6_Witness ==
  /\ status.state = "Closed"
  /\ removed = <<ClosedError>>
  /\ \E t \in Tags : confirms[t] = <<ClosedError>>

(***************************************************************************)
(* Claims about consumers and sending (SpecConsumer, SpecSend)             *)
(***************************************************************************)
\* C7: when the stream of a cancelled Consumer ends, every delivery that
\* was completed and not yet polled at the time of the cancel has been
\* yielded by poll.
C7_CancelYieldsCompleted ==
  ended => due \subseteq {yielded[i] : i \in DOMAIN yielded}

\* the Body frames of a frames vector
BodyFrames(fs) == SubSeq(fs, 3, Len(fs))

RECURSIVE Concat(_)
Concat(fs) == IF fs = <<>> THEN <<>> ELSE Head(fs).payload \o Concat(Tail(fs))

\* Method, Header with body_size = L, then ceil(L / (F - 8)) Body frames of
\* at most F - 8 bytes, all full but the last, which make up the payload
WellFramed(fs, payload, F) ==
  /\ Len(fs) >= 2
  /\ fs[1].kind = "Method"
  /\ fs[2].kind = "Header"
  /\ fs[2].body_size = Len(payload)
  /\ F - BodyFrameOverhead > 0
  /\ \A i \in 3..Len(fs) :
       /\ fs[i].kind = "Body"
       /\ Len(fs[i].payload) <= F - BodyFrameOverhead
       /\ Len(fs[i].payload) > 0
       /\ i < Len(fs) => Len(fs[i].payload) = F - BodyFrameOverhead
  /\ (Len(fs) - 2) * (F - BodyFrameOverhead) >= Len(payload)
  /\ (Len(fs) - 3) * (F - BodyFrameOverhead) < Len(payload)
       \/ (Len(fs) = 2 /\ payload = <<>>)
  /\ Concat(BodyFrames(fs)) = payload

\* C8: for every payload and every negotiated frame_max F, the send builds
\* one Method frame, one Header frame with body_size = L, then exactly
\* ceil(L / (F - 8)) Body frames of at most F - 8 bytes whose concatenation
\* is the payload.
C8_FramesOfPayload ==
  \A t \in Tasks :
    /\ tasks[t].pc # "panicked"
    /\ tasks[t].pc = "built"
         => IF frame_max.hi = 0
            THEN WellFramed(tasks[t].frames, tasks[t].payload, frame_max.lo)
            ELSE \* F - 8 is above every payload length of the model
                 tasks[t].frames =
                   frames_vector(tasks[t].frames[1].publish, tasks[t].payload,
                                 IF tasks[t].payload = <<>> THEN <<>>
                                 ELSE <<tasks[t].payload>>)

\* C9: in the outbound queue the frames of one publish are contiguous, in
\* the order Method, Header, Body..: no frame of another send lies between
\* the Method frame and the last Body frame of a publish.
C9_PublishContiguous ==
  \A i \in DOMAIN frames, k \in DOMAIN frames :
    (i < k /\ frames[i].publish # 0 /\ frames[i].publish = frames[k].publish)
      => /\ \A j \in i..k : frames[j].publish = frames[i].publish
         /\ frames[k].kind # "Method"
         /\ frames[k].kind = "Header" => frames[i].kind = "Method"

\* two publishes were in progress at once (the second one built queued its
\* frames first), and a frame sent alone lies between the two
C9_Witness ==
  /\ Len(frames) >= 7
  /\ frames[1].publish = 2
  /\ frames[4].publish = 0
  /\ frames[5].publish = 1
  /\ frames[7].kind = "Body"

(***************************************************************************)
(* Claims about opening and closing a channel (checked under Spec)         *)
(***************************************************************************)
\* C11: a Channel.Close received on an open channel is answered with a
\* Channel.CloseOk frame on that channel, and the channel ends Closed.
C11_CloseAlwaysReplied ==
  [][\A ch \in ChannelIds :
       (is_connected(channels[ch]) /\ receive_channel_close(ch)) =>
         /\ channels'[ch].state = Closed
         /\ frame_queue' = send_method_frame(frame_queue, ch,
                                             Method("Channel.CloseOk", ""))]_vars

\* the channel has sent a Channel.Close whose Channel.CloseOk it awaits
CloseSent(ch) ==
  \E i \in DOMAIN channels[ch].awaiting :
    channels[ch].awaiting[i].kind = "AwaitingChannelCloseOk"

\* C12: once channel_close has sent Channel.Close the channel no longer is
\* Connected and accepts no request; the matching Channel.CloseOk makes it
\* Closed; a Closed channel never is Connected again.
C12_ClosingAfterCloseSent ==
  [][\A ch \in ChannelIds :
       /\ (~CloseSent(ch) /\ channel_close(ch) /\ ret' = "Ok")
            => channels'[ch].state # Connected
       /\ (CloseSent(ch) /\ (channel_open(ch) \/ OtherRequests(ch)))
            => (ret' # "Ok" /\ NothingSent(ch))
       /\ (/\ is_connected(channels[ch])
           /\ next_answer(channels, ch).kind = "AwaitingChannelCloseOk"
           /\ receive_channel_close_ok(ch))
            => channels'[ch].state = Closed
       /\ channels[ch].state = Closed => channels'[ch].state # Connected]_vars

\* the step is a Channel.OpenOk that matches the channel_open recorded at
\* the head of the expected replies of an Initial channel
OpenOkMatches(ch) ==
  /\ channels[ch].state = Initial
  /\ next_answer(channels, ch).kind = "AwaitingChannelOpenOk"
  /\ receive_channel_open_ok(ch)

\* a Channel.OpenOk in another state, or with no channel_open pending at the
\* head, leaves the channel in Error
OpenOkElseError(ch) ==
  (/\ ~(/\ channels[ch].state = Initial
        /\ next_answer(channels, ch).kind = "AwaitingChannelOpenOk")
   /\ receive_channel_open_ok(ch))
    => channels'[ch].state = Error

HandshakeOrder == <<"ProtocolHeader", "StartOk", "Open">>

\* C14: Connection.Start is accepted only while Connecting at step
\* ProtocolHeader, Connection.Secure and Connection.Tune only at step
\* StartOk, Connection.OpenOk only at step Open; the steps are set in the
\* order ProtocolHeader, StartOk, Open and the connection holds at most the
\* step set last; the connection becomes Connected, and the connection-open
\* promise is resolved with the connection, only by an accepted
\* Connection.OpenOk.
C14_HandshakeInOrder ==
  [][/\ \A id \in ConnChannelIds :
          /\ (conn_result' = Ok /\ receive_connection_start(id))
               => at_step("ProtocolHeader")
          /\ (conn_result' = Ok /\ receive_connection_secure(id))
               => at_step("StartOk")
          /\ (/\ conn_result' = Ok
              /\ \E tune \in ServerTunes :
                   receive_connection_tune(id, tune[1], tune[2], tune[3]))
               => at_step("StartOk")
          /\ (conn_result' = Ok /\ receive_connection_open_ok(id))
               => at_step("Open")
     /\ (\/ connection_status'.state = "Connected"
              /\ connection_status.state # "Connected"
         \/ connection_promise' # connection_promise
              /\ connection_promise'[Len(connection_promise')][1] = "Ok")
          => /\ at_step("Open")
             /\ receive_connection_open_ok(0)
             /\ connection_status'.state = "Connected"
             /\ connection_promise' =
                  Append(connection_promise, <<"Ok", "connection">>)
     /\ steps' = SubSeq(HandshakeOrder, 1, Len(steps'))
     /\ connection_status'.connection_step # "None"
          => connection_status'.connection_step = steps'[Len(steps')]]_vars

\* the handshake is complete: the three steps were taken, the promise is
\* resolved with the connection
C14_Witness ==
  /\ connection_status.state = "Connected"
  /\ connection_promise = <<<<"Ok", "connection">>>>
  /\ steps = HandshakeOrder
  /\ wire = <<"Connection.StartOk", "Connection.TuneOk", "Connection.Open">>

\* "0 means the other side's value, else the lower of the two"
Negotiated(ours, theirs) ==
  IF ours = 0 THEN theirs
  ELSE IF theirs = 0 THEN ours
  ELSE IF ours < theirs THEN ours ELSE theirs

Negotiated32(ours, theirs) ==
  IF ours = u32(0, 0) THEN theirs
  ELSE IF theirs = u32(0, 0) THEN ours
  ELSE IF ours.hi < theirs.hi \/ (ours.hi = theirs.hi /\ ours.lo < theirs.lo)
       THEN ours ELSE theirs

\* C15: a Connection.Tune taken at step StartOk leaves, for each of
\* channel_max, frame_max and heartbeat, the other side's value when one
\* side gave 0 and else the lower of the two; a channel_max still 0 then is
\* 65535, a frame_max still 0 is 2^32 - 1, a heartbeat of 0 on both sides
\* stays 0.
C15_TuneNegotiation ==
  [][\A server_channel_max \in U16Values, server_frame_max \in U32Values,
        server_heartbeat \in U16Values :
       (/\ at_step("StartOk")
        /\ receive_connection_tune(0, server_channel_max, server_frame_max,
                                   server_heartbeat))
         => /\ heartbeat' = Negotiated(heartbeat, server_heartbeat)
            /\ channel_max' =
                 IF Negotiated(channel_max, server_channel_max) = 0 THEN 65535
                 ELSE Negotiated(channel_max, server_channel_max)
            /\ frame_max' =
                 IF Negotiated32(frame_max, server_frame_max) = u32(0, 0)
                 THEN u32(65535, 65535)
                 ELSE Negotiated32(frame_max, server_frame_max)]_vars

\* a Connection.Tune was taken in which neither side limited the channels
\* and the frame size, and the lower heartbeat was picked
C15_Witness ==
  /\ steps = <<"ProtocolHeader", "StartOk">>
  /\ connection_status.connection_step = "None"
  /\ Len(rpc_queue) = 2
  /\ channel_max = 65535
  /\ frame_max = u32(65535, 65535)
  /\ heartbeat = 1

\* the Connection methods a channel receives
ConnectionMethods ==
  {"Connection.Start", "Connection.Secure", "Connection.Tune",
   "Connection.OpenOk", "Connection.Close", "Connection.CloseOk"}

\* a Connection method is received on channel id
ReceiveConnectionMethod(id) ==
  \/ receive_connection_start(id)
  \/ receive_connection_secure(id)
  \/ \E tune \in ServerTunes :
       receive_connection_tune(id, tune[1], tune[2], tune[3])
  \/ receive_connection_open_ok(id)
  \/ \E reply_code \in ReplyCodes : receive_connection_close(id, reply_code)
  \/ receive_connection_close_ok(id)

\* C16: a Connection method received on a channel other than 0 fails with
\* ProtocolError(COMMAND-INVALID), asks internal_rpc to close the connection
\* with that error and does nothing else; on channel 0 assert_channel0
\* returns Ok and asks for nothing.
C16_ConnectionMethodOnChannel0 ==
  [][/\ \A method \in ConnectionMethods :
          assert_channel0(0, method) = [result |-> <<"Ok">>, requests |-> <<>>]
     /\ \A id \in ConnChannelIds \ {0} :
          ReceiveConnectionMethod(id)
            => /\ conn_result' = <<"ProtocolError", "COMMAND_INVALID">>
               /\ rpc_queue' =
                    Append(rpc_queue,
                           [call |-> "close_connection",
                            error |-> <<"ProtocolError", "COMMAND_INVALID">>])
               /\ UNCHANGED <<connection_status, connection_promise, wire,
                              pending, steps, channel_max, frame_max,
                              heartbeat>>]_vars

\* a Connection method came on channel 1 of a Connected connection: the
\* Connection.Close it asked for is sent and the connection is Closing
C16_Witness ==
  /\ conn_result = <<"ProtocolError", "COMMAND_INVALID">>
  /\ wire = <<"Connection.StartOk", "Connection.TuneOk", "Connection.Open",
              "Connection.Close">>
  /\ connection_status.state = "Closing"

\* the error a Connection.Close with the given reply code reports
ReportedError(reply_code) ==
  IF reply_code = 530 THEN <<"ProtocolError", "NOT_ALLOWED">>
  ELSE <<"InvalidConnectionState", "Closed">>

C18_ClosedAfterErrorClose ==
  [][(/\ rpc_queue # <<>>
      /\ Head(rpc_queue).call \in {"set_connection_closed", "set_connection_error"}
      /\ Head(rpc_queue).error = <<"ProtocolError", "NOT_ALLOWED">>
      /\ run_internal_rpc)
       => connection_status'.state = "Closed"]_vars

(***************************************************************************)
(* Claims about the content assembly (checked under SpecContent)           *)
(***************************************************************************)
\* C19: a Body frame received when no byte remains to be received, or longer
\* than what remains, is the protocol error FRAME-ERROR: handle_body_frame
\* asks for Connection.Close with FRAME-ERROR, returns ProtocolError with
\* that code, and the payload is appended to no delivery.
C19_BodyFrameError ==
  [][\A payload \in PayloadLengths :
       (/\ handle_body_frame(payload)
        /\ \/ channel_status.remaining = 0
           \/ payload > channel_status.remaining)
         => /\ content_result' = <<"ProtocolError", "FRAME_ERROR">>
            /\ rpc_queue' =
                 Append(rpc_queue,
                        [call |-> "close_connection",
                         error |-> <<"ProtocolError", "FRAME_ERROR">>])
            /\ UNCHANGED <<current_message, consumer_ready, get_promise,
                           returned_messages>>]_vars

\* the step completes a content: a header of size 0 or the last body frame
CompletesContent ==
  /\ channel_status.state \in {"WillReceiveContent", "ReceivingContent"}
  /\ channel_status'.state = "Connected"

\* the sequence after is the sequence before with the message of the cursor
\* added once, at the end
RoutedTo(before, after, partial) ==
  /\ Len(partial) = 1
  /\ Len(after) = Len(before) + 1
  /\ SubSeq(after, 1, Len(before)) = before
  /\ after[Len(after)].id = partial[1].id
  /\ after[Len(after)].method = partial[1].method
  /\ after[Len(after)].properties

\* every message handed over so far, wherever it went
Routed ==
  consumer_ready \o get_promise \o returned_messages.waiting_messages
    \o returned_messages.messages

\* C20: a step that completes a content (a header of size 0, or the body
\* frame with which nothing remains) hands the delivery to the consumer's
\* ready queue when the cursor has a consumer tag, to the Basic.Get promise
\* when it has only a queue name, to the returned messages when it has
\* neither, and to nothing else; no other step hands a delivery over, and no
\* delivery is ever handed over twice.
C20_CompletedContentRoutedOnce ==
  [][/\ CompletesContent =>
          IF channel_status.request_id_or_consumer_tag # <<>> THEN
            /\ RoutedTo(consumer_ready, consumer_ready', current_message.consumer)
            /\ consumer_ready'[Len(consumer_ready')].method = "Basic.Deliver"
            /\ UNCHANGED <<get_promise, returned_messages>>
          ELSE IF channel_status.queue_name # <<>> THEN
            /\ RoutedTo(get_promise, get_promise', current_message.get)
            /\ get_promise'[Len(get_promise')].method = "Basic.GetOk"
            /\ UNCHANGED <<consumer_ready, returned_messages>>
          ELSE
            /\ \/ /\ RoutedTo(returned_messages.waiting_messages,
                           returned_messages'.waiting_messages,
                           current_message.returned)
                  /\ returned_messages'.messages = returned_messages.messages
               \/ /\ RoutedTo(returned_messages.messages,
                           returned_messages'.messages,
                           current_message.returned)
                  /\ returned_messages'.waiting_messages =
                       returned_messages.waiting_messages
            /\ current_message.returned[1].method = "Basic.Return"
            /\ UNCHANGED <<consumer_ready, get_promise>>
     /\ ~CompletesContent
          => UNCHANGED <<consumer_ready, get_promise, returned_messages>>
     /\ \A i, j \in DOMAIN Routed' :
          i # j => Routed'[i].id # Routed'[j].id]_vars

\* the three kinds of delivery were completed, one by two body frames, one
\* by a header of size 0, and each is where its cursor sent it
C20_Witness ==
  /\ Len(consumer_ready) = 1
  /\ consumer_ready[1].data = <<1, 1>>
  /\ Len(get_promise) = 1
  /\ get_promise[1].data = <<>>
  /\ Len(returned_messages.waiting_messages) = 1
  /\ returned_messages.waiting_messages[1].method = "Basic.Return"
  /\ channel_status.state = "Connected"

(***************************************************************************)
(* Claims about delivery tags and unknown confirmations (SpecTags,         *)
(* SpecConfirm)                                                            *)
(***************************************************************************)
\* C21: in confirm mode every basic_publish the channel takes is given the
\* tag that follows the last one given on that channel, the first being 1,
\* and registers a pending confirm under it; no other step gives a tag or
\* registers a confirm; the publishes and tags of the other channel leave
\* those of this channel as they are, and the other way round.
C21_TagsInSequence ==
  [][/\ (status.confirm /\ status_connected /\ Channel_basic_publish)
          => /\ delivery_tag' = delivery_tag + 1
             /\ delivery_tag' >= 1
             /\ delivery_tag' \notin acknowledgements
             /\ confirms[delivery_tag'] = <<>>
             /\ acknowledgements' = acknowledgements \cup {delivery_tag'}
             /\ result' = "PublisherConfirm"
             /\ peer' = peer
     /\ delivery_tag' \in {delivery_tag, delivery_tag + 1}
     /\ delivery_tag' = delivery_tag => acknowledgements' \subseteq acknowledgements
     /\ delivery_tag' # delivery_tag
          => (status.confirm /\ status_connected /\ Channel_basic_publish)
     /\ (peer.confirm /\ Peer_before_basic_publish)
          => /\ peer'.delivery_tag = peer.delivery_tag + 1
             /\ peer'.acknowledgements =
                  peer.acknowledgements \cup {peer.delivery_tag + 1}
             /\ UNCHANGED <<delivery_tag, acknowledgements>>
     /\ 0 \notin acknowledgements' \cup peer'.acknowledgements]_vars

\* the channel has published three times in confirm mode, the other channel
\* once: the tags are 1, 2, 3 here and 1 there
C21_Witness ==
  /\ delivery_tag = 3
  /\ acknowledgements = {1, 2, 3}
  /\ peer.delivery_tag = 1
  /\ peer.acknowledgements = {1}

\* C22: a publish on a channel whose confirm mode was never enabled takes no
\* delivery tag and registers no pending confirm, and its call returns
\* only once the writer has flushed its frames: then with NotRequested
C22_PublishWithoutConfirm ==
  [][/\ (basic_publish_call /\ ~status.confirm)
          => /\ delivery_tag' = delivery_tag
             /\ acknowledgements' = acknowledgements
             /\ confirms' = confirms
             /\ publish_call'.confirmation # Some(NotRequested)
     /\ (/\ ~status.confirm
         /\ publish_call.pc = "awaiting"
         /\ publish_call'.pc = "returned")
          => /\ publish_call.promise # Unresolved
             /\ publish_call.promise = Ok
                  => publish_call'.confirmation = Some(NotRequested)
             /\ publish_call'.confirmation = Some(NotRequested)
                  => publish_call.promise = Ok]_vars

\* a publish without confirm mode has returned NotRequested after the flush
C22_Witness ==
  /\ ~status.confirm
  /\ status_connected
  /\ publish_call.pc = "returned"
  /\ publish_call.promise = Ok
  /\ publish_call.confirmation = Some(NotRequested)
  /\ delivery_tag = 0
  /\ acknowledgements = {}

\* the future that acknowledgement_error registers with internal_rpc
CloseFuture == [call |-> "do_channel_close", error |-> ""]

\* C23: in confirm mode a Basic.Ack or Basic.Nack for a tag that has no
\* pending confirm fails with the PRECONDITION-FAILED ProtocolError and
\* has the channel closed with it: when the close it schedules runs on the
\* connected channel, Channel.Close is sent and the channel is in the
\* error state
C23_UnknownTagErrorsChannel ==
  [][/\ \A tag \in 0..MaxTag :
          (/\ status_can_receive_messages
           /\ status.confirm
           /\ tag \notin acknowledgements
           /\ \/ receive_basic_ack(tag, FALSE)
              \/ receive_basic_nack(tag, FALSE))
            => /\ result' = PreconditionFailed
               /\ CloseFuture \in internal_rpc'
     /\ (/\ CloseFuture \in internal_rpc
         /\ internal_rpc' = internal_rpc \ {CloseFuture}
         /\ status_connected)
          => /\ expected_close_ok'
             /\ status'.state = "Error"]_vars

\* the awaited confirm of a waiting wait_for_confirms is resolved
AwaitedResolved == confirms[waiter.tag] # <<>>
AwaitedFailed == confirms[waiter.tag][1] \notin {"Ack", "Nack"}
NoReturnedMessages == [waiting_messages |-> <<>>, messages |-> <<>>]

\* C24: wait_for_confirms awaits the pending confirm registered last and
\* completes only once it is resolved, at once when none is pending; it
\* fails with the error of that confirm, and otherwise returns every
\* returned message accumulated and removes them, so that nothing is left
\* for a call that follows
C24_WaitForConfirms ==
  [][/\ (wait_for_confirms_call /\ acknowledgements # {})
          => /\ waiter'.pc = "waiting"
             /\ waiter'.tag \in acknowledgements
             /\ \A t \in acknowledgements : t <= waiter'.tag
             /\ returned_messages' = returned_messages
     /\ (wait_for_confirms_call /\ acknowledgements = {})
          => /\ waiter'.pc = "done"
             /\ waiter'.error = ""
             /\ waiter'.returned = drained
             /\ returned_messages' = NoReturnedMessages
     /\ (waiter.pc = "waiting" /\ waiter'.pc # "waiting")
          => /\ AwaitedResolved
             /\ waiter'.pc = "done"
             /\ IF AwaitedFailed
                THEN /\ waiter'.error = confirms[waiter.tag][1]
                     /\ waiter'.returned = <<>>
                     /\ returned_messages' = returned_messages
                ELSE /\ waiter'.error = ""
                     /\ waiter'.returned = drained
                     /\ returned_messages' = NoReturnedMessages]_vars

\* a wait_for_confirms that awaited tag 2 has returned a returned message
C24_Witness ==
  /\ waiter.pc = "done"
  /\ waiter.tag = 2
  /\ waiter.error = ""
  /\ Len(waiter.returned) = 1
  /\ 1 \in acknowledgements
  /\ returned_messages = NoReturnedMessages

\* C25: a channel that enters the Error state has no expected reply left
\* pending, and the state and the expected replies of every other channel
\* are as they were
C25_ErrorFailsAllPending ==
  [][\A ch \in DOMAIN channels :
       (channels[ch].state # Error /\ channels'[ch].state = Error)
         => /\ channels'[ch].awaiting = <<>>
            /\ \A other \in DOMAIN channels \ {ch} :
                 /\ channels'[other].state = channels[other].state
                 /\ channels'[other].awaiting = channels[other].awaiting]_vars

\* C27: a Channel.Flow{active} received on a connected channel sets the
\* send_flow of that channel to active and queues a Channel.FlowOk with the
\* same value on it; its receive_flow, expected replies and state, and the
\* other channels, are as they were
C27_FlowReceived ==
  [][\A ch \in PairChannelIds, active \in BOOLEAN :
       (is_connected(channels[ch]) /\ receive_channel_flow(ch, active))
         => /\ channels'[ch].send_flow = active
            /\ channels'[ch].receive_flow = channels[ch].receive_flow
            /\ channels'[ch].awaiting = channels[ch].awaiting
            /\ channels'[ch].state = channels[ch].state
            /\ \A other \in PairChannelIds \ {ch} : channels'[other] = channels[other]
            /\ frame_queue' =
                 Append(frame_queue, <<ch, <<"Channel.FlowOk", BoolStr(active)>>>>)
            /\ ret' = "Ok"]_vars

\* channel 1 has taken a Channel.Flow{active: false} and answered it, and
\* channel 2 is connected with its send_flow as it was
C27_Witness ==
  /\ channels[1].state = Connected
  /\ channels[2].state = Connected
  /\ ~channels[1].send_flow
  /\ channels[1].receive_flow
  /\ channels[2].send_flow
  /\ Len(frame_queue) = 3
  /\ frame_queue[3] = <<1, <<"Channel.FlowOk", "false">>>>

\* the prefetch values of the connection and of each channel
Prefetch(chs, size, count) ==
  [connection |-> <<size, count>>,
   channel |-> [ch \in DOMAIN chs |-> <<chs[ch].prefetch_size, chs[ch].prefetch_count>>]]

\* the prefetch values once the Basic.QosOk of the request a is taken on ch
QosApplied(ch, a) ==
  IF a.bools[1]
  THEN [Prefetch(channels, prefetch_size, prefetch_count) EXCEPT
          !.connection = a.nums]
  ELSE [Prefetch(channels, prefetch_size, prefetch_count) EXCEPT
          !.channel[ch] = a.nums]

\* C29: the values of a basic_qos take effect only when its Basic.QosOk is
\* received, on the connection when global is set and else on the channel of
\* the request; the other level and the other channels keep theirs, and no
\* other step changes a prefetch value
C29_QosAtQosOk ==
  [][/\ \A ch \in PairChannelIds :
          (/\ is_connected(channels[ch])
           /\ next_answer(channels, ch).kind = "AwaitingBasicQosOk"
           /\ receive_basic_qos_ok(ch))
            => Prefetch(channels', prefetch_size', prefetch_count')
                 = QosApplied(ch, next_answer(channels, ch))
     /\ Prefetch(channels', prefetch_size', prefetch_count')
          # Prefetch(channels, prefetch_size, prefetch_count)
          => \E ch \in PairChannelIds :
               /\ is_connected(channels[ch])
               /\ next_answer(channels, ch).kind = "AwaitingBasicQosOk"
               /\ channels'[ch].awaiting = Tail(channels[ch].awaiting)
               /\ next_answer(channels, ch).id \in finished_reqs'
               /\ Prefetch(channels', prefetch_size', prefetch_count')
                    = QosApplied(ch, next_answer(channels, ch))]_vars

\* channel 1 has its own prefetch values and the connection-wide ones are
\* set too, each by a Basic.QosOk; channel 2 has neither
C29_Witness ==
  /\ Prefetch(channels, prefetch_size, prefetch_count)
       = [connection |-> <<0, 1>>, channel |-> <<<<1, 2>>, <<0, 0>>>>]
  /\ channels[1].awaiting = <<>>

\* the queue named by the request that the expected reply a answers: each
\* request since the declaration of q1 has queued one frame
RequestedQueue(a) == frame_queue[a.id - 1][2][2]

\* C30: Queue.BindOk marks active the binding of the queue its request
\* named, Queue.UnbindOk removes the binding of the queue its request named,
\* Queue.DeleteOk removes the queue its request named, and nothing else;
\* the requests themselves leave the binding inactive, respectively the
\* binding and the queue present
C30_QueueReplies ==
  [][\A ch \in ChannelIds :
       LET a == next_answer(channels, ch)
           queues == channels[ch].queues
           key == <<a.strs[1], a.strs[2]>>
       IN
       /\ (/\ is_connected(channels[ch])
           /\ a.kind = "AwaitingQueueBindOk"
           /\ receive_queue_bind_ok(ch))
            => channels'[ch].queues =
                 IF /\ RequestedQueue(a) \in DOMAIN queues
                    /\ key \in DOMAIN queues[RequestedQueue(a)].bindings
                 THEN [queues EXCEPT ![RequestedQueue(a)].bindings[key] = TRUE]
                 ELSE queues
       /\ (/\ is_connected(channels[ch])
           /\ a.kind = "AwaitingQueueUnbindOk"
           /\ receive_queue_unbind_ok(ch))
            => channels'[ch].queues =
                 IF RequestedQueue(a) \in DOMAIN queues
                 THEN [queues EXCEPT ![RequestedQueue(a)].bindings = MapRemove(@, key)]
                 ELSE queues
       /\ (/\ is_connected(channels[ch])
           /\ a.kind = "AwaitingQueueDeleteOk"
           /\ receive_queue_delete_ok(ch))
            => channels'[ch].queues = MapRemove(queues, RequestedQueue(a))
       /\ \A queue \in QueueNames, exchange \in Exchanges, routing_key \in RoutingKeys :
            /\ (is_connected(channels[ch]) /\ queue \in DOMAIN queues
                /\ queue_bind(ch, queue, exchange, routing_key))
                 => ~channels'[ch].queues[queue].bindings[<<exchange, routing_key>>]
            /\ (queue_unbind(ch, queue, exchange, routing_key) \/ queue_delete(ch, queue))
                 => channels'[ch].queues = queues]_vars

\* the consumers of the registry, as a closing or a failure leaves them
AllCancelled(cs) == \A t \in DOMAIN cs : cs[t].canceled
AllGiven(cs, error) == \A t \in DOMAIN cs : cs[t].error = error

C28_ServerCancel ==
  [][/\ \A consumer_tag \in RegistryTags, nowait \in BOOLEAN :
          (status_can_receive_messages /\ receive_basic_cancel(consumer_tag, nowait))
            => /\ consumer_tag \notin DOMAIN consumers'
               /\ \A t \in DOMAIN consumers \ {consumer_tag} :
                    t \in DOMAIN consumers' /\ consumers'[t] = consumers[t]
               /\ DOMAIN consumers' \subseteq DOMAIN consumers
               /\ cancel_ok_futures' =
                    IF nowait THEN cancel_ok_futures
                    ELSE Append(cancel_ok_futures, consumer_tag)
               /\ cancel_oks' = cancel_oks
     /\ cancel_oks' # cancel_oks
          => /\ cancel_ok_futures # <<>>
             /\ cancel_oks' = Append(cancel_oks, Head(cancel_ok_futures))
             /\ cancel_ok_futures' = Tail(cancel_ok_futures)
             /\ consumers' = consumers]_vars

\* the consumer ct1 was cancelled by the broker and answered, ct2 is still
\* registered
C28_Witness ==
  /\ DOMAIN consumers = {"ct2"}
  /\ cancel_oks = <<"ct1">>
  /\ cancel_ok_futures = <<>>


\* C31: a Basic.ConsumeOk that answers a pending basic_consume leaves, on the
\* queue named by that request, exactly one consumer under the tag the
\* server assigned, with the flags of the request and no message yet
C31_ConsumeOkRegisters ==
  [][\A ch \in ChannelIds, consumer_tag \in ConsumerTags :
       LET a == next_answer(channels, ch) IN
       (/\ is_connected(channels[ch])
        /\ a.kind = "AwaitingBasicConsumeOk"
        /\ receive_basic_consume_ok(ch, consumer_tag))
         => /\ a.id \in finished_reqs'
            /\ a.strs[1] \in DOMAIN channels'[ch].queues
            /\ consumer_tag \in DOMAIN channels'[ch].queues[a.strs[1]].consumers
            /\ channels'[ch].queues[a.strs[1]].consumers[consumer_tag]
                 = Consumer_new(a.bools)]_vars


\* C32: a pending basic_get is answered once, by Basic.GetOk or by
\* Basic.GetEmpty. GetEmpty removes the pending get, records "no message"
\* for its request and leaves the channel state and the queues as they were;
\* GetOk removes the pending get, records "a message" and sets the cursor
\* WillReceiveContent(queue of the request, no consumer tag); either of them
\* received while the oldest expected reply is not a pending get fails with
\* UnexpectedAnswer, puts the channel in Error and records nothing
C32_GetAnswered ==
  [][\A ch \in ChannelIds :
       LET a == next_answer(channels, ch) IN
       /\ (/\ is_connected(channels[ch])
           /\ a.kind = "AwaitingBasicGetAnswer"
           /\ receive_basic_get_empty(ch))
            => /\ ret' = "Ok"
               /\ a.id \notin DOMAIN finished_get_reqs
               /\ finished_get_reqs' = MapPut(finished_get_reqs, a.id, FALSE)
               /\ channels'[ch] = [channels[ch] EXCEPT !.awaiting = Tail(@)]
               /\ \A i \in DOMAIN channels'[ch].awaiting :
                    channels'[ch].awaiting[i].id # a.id
       /\ (/\ is_connected(channels[ch])
           /\ a.kind = "AwaitingBasicGetAnswer"
           /\ receive_basic_get_ok(ch))
            => /\ ret' = "Ok"
               /\ a.id \notin DOMAIN finished_get_reqs
               /\ finished_get_reqs' = MapPut(finished_get_reqs, a.id, TRUE)
               /\ channels'[ch].awaiting = Tail(channels[ch].awaiting)
               /\ \A i \in DOMAIN channels'[ch].awaiting :
                    channels'[ch].awaiting[i].id # a.id
               /\ channels'[ch].state = WillReceiveContent(a.strs[1], NoStr)
       /\ (/\ is_connected(channels[ch])
           /\ a.kind # "AwaitingBasicGetAnswer"
           /\ (receive_basic_get_ok(ch) \/ receive_basic_get_empty(ch)))
            => /\ ret' = "UnexpectedAnswer"
               /\ channels'[ch].state = Error
               /\ finished_get_reqs' = finished_get_reqs]_vars

\* two basic_get have been answered, one by GetEmpty and then one by GetOk,
\* whose content is now expected for q1
C32_Witness ==
  /\ \E i, j \in DOMAIN finished_get_reqs :
       finished_get_reqs[i] /\ ~finished_get_reqs[j]
  /\ channels[1].state = WillReceiveContent("q1", NoStr)
  /\ channels[1].awaiting = <<>>


\* the ConsumerInner of every registered consumer has no delivery left, is
\* cancelled or not as before, and the unregistered ones are as before
Dropped ==
  \A t \in RegistryTags :
    inners'[t] = IF t \in DOMAIN consumers
                 THEN [inners[t] EXCEPT !.deliveries = <<>>]
                 ELSE inners[t]

\* C33: once basic_recover_async, or a basic_ack or basic_nack with
\* multiple = true and delivery_tag = 0, has been sent, the completed
\* deliveries of every consumer of the channel are dropped; a basic_ack or
\* basic_nack with multiple = false or delivery_tag # 0 leaves every
\* consumer's deliveries as they are; none of them cancels or deregisters a
\* consumer
C33_DropPrefetched ==
  [][/\ on_basic_recover_async_sent => Dropped
     /\ \A multiple \in BOOLEAN, tag \in AckTags :
          (on_basic_ack_sent(multiple, tag) \/ on_basic_nack_sent(multiple, tag))
            => IF multiple /\ tag = 0 THEN Dropped ELSE inners' = inners
     /\ (\/ on_basic_recover_async_sent
         \/ \E multiple \in BOOLEAN, tag \in AckTags :
              on_basic_ack_sent(multiple, tag) \/ on_basic_nack_sent(multiple, tag))
          => /\ consumers' = consumers
             /\ \A t \in RegistryTags : inners'[t].canceled = inners[t].canceled]_vars

\* both consumers are registered and none was ever cancelled, deliveries
\* have been completed, and none is left to either of them: they have been
\* dropped
C33_Witness ==
  /\ DOMAIN consumers = RegistryTags
  /\ cancel_ok_futures = <<>>
  /\ delivered = MaxReady
  /\ \A t \in RegistryTags : inners[t] = ConsumerInner_default


\* C34: a request operation of the Connection that returns InvalidChannel or
\* InvalidState leaves every channel (its state, its expected replies, its
\* queues), the frame queue and the request ids as they were; a channel_open
\* refused on a Connected channel leaves that channel Connected
C34_RejectedChangesNothing ==
  [][\A ch \in AnyChannelId :
       (/\ channel_open(ch) \/ OtherRequests(ch)
        /\ ret' \in {"InvalidChannel", "InvalidState"})
         => /\ channels' = channels
            /\ frame_queue' = frame_queue
            /\ request_index' = request_index]_vars


\* the queues of channel c on which consumer_tag is registered
QueuesOfConsumer(c, consumer_tag) ==
  {q \in DOMAIN c.queues : consumer_tag \in DOMAIN c.queues[q].consumers}

\* C35: after a Basic.Deliver for consumer tag T on a connected channel, the
\* cursor WillReceiveContent(queue, T) names a queue on which T is
\* registered and the partial message is created on that consumer only; when
\* no queue of the channel has a consumer T the channel is left as it was
C35_DeliverNamesConsumerQueue ==
  [][\A ch \in ChannelIds, consumer_tag \in ConsumerTags :
       LET c == channels[ch]
           holders == QueuesOfConsumer(c, consumer_tag)
       IN
       (is_connected(c) /\ receive_basic_deliver(ch, consumer_tag))
         => IF holders = {} THEN channels'[ch] = c
            ELSE \E queue \in holders :
                   channels'[ch] =
                     [c EXCEPT
                        !.state = WillReceiveContent(queue, consumer_tag),
                        !.queues[queue].consumers[consumer_tag].current_message = TRUE]]_vars


\* the binding key of queue in the registry chs[ch] is there and active
BindingActive(chs, ch, queue, key) ==
  /\ queue \in DOMAIN chs[ch].queues
  /\ key \in DOMAIN chs[ch].queues[queue].bindings
  /\ chs[ch].queues[queue].bindings[key]

\* C36: a binding of a queue becomes active only when the Queue.BindOk that
\* answers the queue_bind of that very queue, with that exchange and routing
\* key, is received: the reply to the bind of another queue with the same
\* exchange and routing key does not activate it
C36_ActiveAfterOwnBindOk ==
  [][\A ch \in ChannelIds, queue \in QueueNames, exchange \in Exchanges, routing_key \in RoutingKeys :
       LET a == next_answer(channels, ch)
           key == <<exchange, routing_key>>
       IN
       (/\ ~BindingActive(channels, ch, queue, key)
        /\ BindingActive(channels', ch, queue, key))
         => /\ a.kind = "AwaitingQueueBindOk"
            /\ a.strs = key
            /\ RequestedQueue(a) = queue
            /\ channels'[ch].awaiting = Tail(channels[ch].awaiting)]_vars


\* C37: queue_declare for a queue that is already in the registry keeps the
\* consumers, the bindings and the message in flight of that queue; a
\* binding or a consumer of a registered queue disappears only when a
\* Basic.CancelOk, a Queue.UnbindOk or a Queue.DeleteOk is received
C37_RedeclareKeepsQueue ==
  [][\A ch \in ChannelIds, queue \in QueueNames :
       LET queues == channels[ch].queues
           a == next_answer(channels, ch)
       IN
       /\ (/\ is_connected(channels[ch])
           /\ queue \in DOMAIN queues
           /\ queue_declare(ch, queue))
            => /\ queue \in DOMAIN channels'[ch].queues
               /\ channels'[ch].queues[queue].consumers = queues[queue].consumers
               /\ channels'[ch].queues[queue].bindings = queues[queue].bindings
               /\ channels'[ch].queues[queue].current_get_message
                    = queues[queue].current_get_message
       /\ (/\ queue \in DOMAIN queues
           /\ \/ queue \notin DOMAIN channels'[ch].queues
              \/ ~(DOMAIN queues[queue].bindings
                     \subseteq DOMAIN channels'[ch].queues[queue].bindings)
              \/ ~(DOMAIN queues[queue].consumers
                     \subseteq DOMAIN channels'[ch].queues[queue].consumers))
            => a.kind \in {"AwaitingBasicCancelOk", "AwaitingQueueUnbindOk",
                           "AwaitingQueueDeleteOk"}]_vars


\* C38: every frame_max the negotiation produces leaves a chunk size
\* frame_max - 8 above 0, without underflow, so that no send panics and a
\* publish with a non-empty payload is built with at least one Body frame
C38_ChunkSizePositive ==
  /\ frame_max # u32_zero => u32_lt(u32(0, BodyFrameOverhead), frame_max)
  /\ \A t \in Tasks :
       /\ tasks[t].pc # "panicked"
       /\ (tasks[t].pc = "built" /\ tasks[t].payload # <<>>)
            => /\ Len(tasks[t].frames) > 2
               /\ \A i \in 3..Len(tasks[t].frames) :
                    /\ tasks[t].frames[i].kind = "Body"
                    /\ tasks[t].frames[i].payload # <<>>


\* C39: poll yields the deliveries given to new_delivery in the order they
\* were given and each at most once (they are numbered as they are given),
\* and once poll has returned the end of the stream no later poll yields a
\* delivery, whatever new_delivery, drop_prefetched_messages and cancel
\* calls follow
C39_FifoThenEnd ==
  /\ [](\A i, j \in DOMAIN yielded : i < j => yielded[i] < yielded[j])
  /\ [][ended => yielded' = yielded]_vars


\* C40: the stream goes from Handshaking to Connected and never back; it
\* becomes Connected only by a handshake() that returns Ok; handshake() on a
\* Connected stream returns Ok and changes nothing; and after every return
\* of handshake(), with an error too, a stream that is still Handshaking
\* holds its mid-handshake stream, so that inner(), inner_mut(), read and
\* write never find it absent
C40_TwoStates ==
  /\ [](/\ stream.tag \in {"Handshaking", "Connected"}
        /\ stream.tag = "Handshaking" => stream.handshaker = Some(MidHandshake)
        /\ stream_result # "panic")
  /\ [][/\ stream.tag = "Connected" => stream'.tag = "Connected"
        /\ (stream.tag = "Handshaking" /\ stream'.tag = "Connected")
             => /\ handshakes' = handshakes + 1
                /\ stream_result' = "Ok"
        /\ (stream.tag = "Connected" /\ handshakes' = handshakes + 1)
             => stream' = stream /\ stream_result' = "Ok"]_vars

=============================================================================
